---- MODULE Spec2Model ----
(***************************************************************************)
(* A model of the Tenant Lease Analyzer: the response extraction of        *)
(* LeaseAnalyzer (regex search + json.loads + fallback), the session       *)
(* object LeaseAnalyzerAgent (load, the analysis wrappers, the full        *)
(* analysis) and the Streamlit session state around it (lease_loaded,      *)
(* results, reset_analysis).                                               *)
(*                                                                         *)
(* Text (a completion, a lease text, a Python str) is a sequence of        *)
(* elements.  An element is one punctuation character (of JSON, or one    *)
(* of - . $ '), one whitespace character, one maximal run of digits, or    *)
(* one maximal run of letters (a "word").  In a completion, which is the   *)
(* only text that is decoded, a number is a run of digits, no word is      *)
(* "NaN" or "Infinity", and strings hold no backslash.  The fixed          *)
(* messages of the program, which are never decoded, are written as one    *)
(* element each.                                                           *)
(*                                                                         *)
(* A Python value is a record [k |-> kind, v |-> payload]:                 *)
(*   none, bool (BOOLEAN), num (Int), float (Int, its integral value),     *)
(*   str (text), list (sequence of values), dict (function from key text   *)
(*   to value).                                                            *)
(***************************************************************************)
EXTENDS Integers, Sequences, FiniteSets, TLC

VARIABLES
    result,        \* extractor: the completion handed to the extraction
    shape,         \* extractor: "none", "object" or "array"
    extracted,     \* extractor: outcome of the extraction
    lease_text,    \* LeaseAnalyzerAgent.lease_text
    metadata,      \* LeaseAnalyzerAgent.metadata
    lease_loaded,  \* st.session_state.lease_loaded
    results,       \* st.session_state.results
    op,            \* the operation that ran last, with its arguments
    ret,           \* its outcome: [exc |-> ..., val |-> ...]
    calls          \* the model requests it issued, in order

vars == <<result, shape, extracted, lease_text, metadata, lease_loaded,
          results, op, ret, calls>>

extractVars == <<result, shape, extracted>>
sessionVars == <<lease_text, metadata, lease_loaded, results, op, ret, calls>>

(***************************************************************************)
(* Bounds                                                                  *)
(***************************************************************************)
\* longest completion enumerated over the whole alphabet
MaxLen == 4
\* longest leading / trailing prose put around a JSON document
MaxAffix == 1

(***************************************************************************)
(* Python values                                                           *)
(***************************************************************************)
None == [k |-> "none", v |-> 0]
Bool(b) == [k |-> "bool", v |-> b]
Num(n) == [k |-> "num", v |-> n]
\* a float with the integral value n
Float(n) == [k |-> "float", v |-> n]
Str(s) == [k |-> "str", v |-> s]
List(s) == [k |-> "list", v |-> s]
Dict(f) == [k |-> "dict", v |-> f]

\* a one-word str
W(w) == Str(<<w>>)
EmptyStr == Str(<<>>)
EmptyDict == Dict(<<>>)
EmptyList == List(<<>>)

\* dict display {key: value}, keys given as one-word texts
Key(w) == <<w>>

\* bool(x)
Truthy(x) ==
    CASE x.k = "none" -> FALSE
      [] x.k = "bool" -> x.v
      [] x.k = "num" -> x.v # 0
      [] x.k = "float" -> x.v # 0
      [] x.k = "str" -> Len(x.v) > 0
      [] x.k = "list" -> Len(x.v) > 0
      [] x.k = "dict" -> DOMAIN x.v # {}

\* d[key] = value on dict payload f (the last assignment of a key wins)
DictSet(f, key, value) ==
    [x \in DOMAIN f \cup {key} |-> IF x = key THEN value ELSE f[x]]

(***************************************************************************)
(* json.loads                                                              *)
(***************************************************************************)
IsWs(c) == c \in {" ", "\n"}
DigitRuns == {"0", "1", "2", "2500"}
NumOf(d) ==
    CASE d = "0" -> 0
      [] d = "1" -> 1
      [] d = "2" -> 2
      [] d = "2500" -> 2500

\* the first index >= i of s that holds no whitespace (Len(s)+1 if none)
RECURSIVE SkipWs(_, _)
SkipWs(s, i) ==
    IF i <= Len(s) /\ IsWs(s[i]) THEN SkipWs(s, i + 1) ELSE i

\* the first index >= i of s that holds c (0 if none)
RECURSIVE Find(_, _, _)
Find(s, c, i) ==
    IF i > Len(s) THEN 0
    ELSE IF s[i] = c THEN i
    ELSE Find(s, c, i + 1)

\* the last index <= i of s that holds c (0 if none)
RECURSIVE FindLast(_, _, _)
FindLast(s, c, i) ==
    IF i < 1 THEN 0
    ELSE IF s[i] = c THEN i
    ELSE FindLast(s, c, i - 1)

\* the element of a one-element set: Only({e(x) : x \in {v}}) is e(v) with v
\* evaluated once
Only(S) == CHOOSE x \in S : TRUE

DecodeFail == [ok |-> FALSE, val |-> None, end |-> 0]
Decoded(value, e) == [ok |-> TRUE, val |-> value, end |-> e]

\* a string whose opening quote is at i - 1: up to the next quote; a
\* control character inside it is an error (strict mode)
IsControl(c) == c = "\n"
ParseString(s, i) ==
    Only({
      IF j = 0 \/ \E n \in i..(j - 1) : IsControl(s[n]) THEN DecodeFail
      ELSE Decoded(Str(SubSeq(s, i, j - 1)), j + 1)
      : j \in {Find(s, "\"", i)}})

RECURSIVE ParseValue(_, _)
RECURSIVE ArrayItems(_, _, _)
RECURSIVE ObjectItems(_, _, _)

\* the items of an array after "[" or ","; i is at the next item
ArrayItems(s, i, acc) ==
    Only({
      IF ~item.ok THEN DecodeFail
      ELSE Only({
        IF j > Len(s) THEN DecodeFail
        ELSE IF s[j] = "]" THEN Decoded(List(Append(acc, item.val)), j + 1)
        ELSE IF s[j] = "," THEN ArrayItems(s, SkipWs(s, j + 1), Append(acc, item.val))
        ELSE DecodeFail
        : j \in {SkipWs(s, item.end)}})
      : item \in {ParseValue(s, i)}})

\* the pairs of an object after "{" or ","; i is at the key's opening quote
ObjectItems(s, i, acc) ==
    IF i > Len(s) \/ s[i] # "\"" THEN DecodeFail
    ELSE Only({
      IF ~key.ok THEN DecodeFail
      ELSE Only({
        IF c > Len(s) \/ s[c] # ":" THEN DecodeFail
        ELSE Only({
          IF ~item.ok THEN DecodeFail
          ELSE Only({
            IF j > Len(s) THEN DecodeFail
            ELSE IF s[j] = "}"
                 THEN Decoded(Dict(DictSet(acc, key.val.v, item.val)), j + 1)
            ELSE IF s[j] = ","
                 THEN ObjectItems(s, SkipWs(s, j + 1),
                                  DictSet(acc, key.val.v, item.val))
            ELSE DecodeFail
            : j \in {SkipWs(s, item.end)}})
          : item \in {ParseValue(s, SkipWs(s, c + 1))}})
        : c \in {SkipWs(s, key.end)}})
      : key \in {ParseString(s, i + 1)}})

\* one JSON value starting at i
ParseValue(s, i) ==
    IF i > Len(s) THEN DecodeFail
    ELSE
      LET c == s[i]
      IN  CASE c = "\"" -> ParseString(s, i + 1)
            [] c = "{" ->
                 Only({
                   IF j <= Len(s) /\ s[j] = "}" THEN Decoded(EmptyDict, j + 1)
                   ELSE ObjectItems(s, j, <<>>)
                   : j \in {SkipWs(s, i + 1)}})
            [] c = "[" ->
                 Only({
                   IF j <= Len(s) /\ s[j] = "]" THEN Decoded(EmptyList, j + 1)
                   ELSE ArrayItems(s, j, <<>>)
                   : j \in {SkipWs(s, i + 1)}})
            [] c \in DigitRuns -> Decoded(Num(NumOf(c)), i + 1)
            [] c = "null" -> Decoded(None, i + 1)
            [] c = "true" -> Decoded(Bool(TRUE), i + 1)
            [] c = "false" -> Decoded(Bool(FALSE), i + 1)
            [] OTHER -> DecodeFail

\* json.loads(s): one value, whitespace around it, nothing else;
\* ok = FALSE stands for json.JSONDecodeError
json_loads(s) ==
    Only({
      IF r.ok /\ SkipWs(s, r.end) = Len(s) + 1
      THEN [ok |-> TRUE, val |-> r.val]
      ELSE [ok |-> FALSE, val |-> None]
      : r \in {ParseValue(s, SkipWs(s, 1))}})

(***************************************************************************)
(* re.search(r'\{.*\}', s, re.DOTALL) and re.search(r'\[.*\]', ...)        *)
(***************************************************************************)
NoMatch == [found |-> FALSE, group |-> <<>>]

\* variant: the lazy pattern, through the first closing character
re_search_lazy(open, close, s) ==
    LET first == Find(s, open, 1)
        next == IF first = 0 THEN 0 ELSE Find(s, close, first + 1)
    IN  IF first # 0 /\ next # 0
        THEN [found |-> TRUE, group |-> SubSeq(s, first, next)]
        ELSE NoMatch

\* variant: without re.DOTALL, a match does not span a line break
re_search_one_line(open, close, s) ==
    LET SameLine(i, j) == \A k \in (i + 1)..(j - 1) : s[k] # "\n"
        Ends(i) == {j \in (i + 1)..Len(s) : s[j] = close /\ SameLine(i, j)}
        starts == {i \in DOMAIN s : s[i] = open /\ Ends(i) # {}}
        first == CHOOSE i \in starts : \A k \in starts : i <= k
        last == CHOOSE j \in Ends(first) : \A k \in Ends(first) : k <= j
    IN  IF starts # {}
        THEN [found |-> TRUE, group |-> SubSeq(s, first, last)]
        ELSE NoMatch

\* leftmost match, greedy: from the first opening character that has a
\* closing one after it through the last closing character
re_search(open, close, s) ==
    LET first == Find(s, open, 1)
        last == FindLast(s, close, Len(s))
    IN  IF first # 0 /\ last > first
        THEN [found |-> TRUE, group |-> SubSeq(s, first, last)]
        ELSE NoMatch

\* the text handed to json.loads
Candidate(open, close, s) ==
    LET json_match == re_search(open, close, s)
    IN  IF json_match.found THEN json_match.group ELSE s

(***************************************************************************)
(* The extraction of the two structured operations                         *)
(***************************************************************************)
MetadataSentinel(completion) ==
    Dict((Key("error") :> Str(<<"Could not parse lease metadata">>))
         @@ (Key("raw_response") :> Str(completion)))

ClauseSentinel ==
    Dict((Key("clause") :> Str(<<"Error parsing response">>))
         @@ (Key("issue") :> Str(<<"Could not analyze lease">>))
         @@ (Key("severity") :> Str(<<"Unknown">>))
         @@ (Key("potentially_illegal") :> Bool(FALSE))
         @@ (Key("recommendation") :> Str(<<"Manual review required">>)))

(***************************************************************************)
(* The model invocation (chain.run) and the outcome of a call              *)
(***************************************************************************)
\* what one chain.run does: it returns a completion or raises
Completion(text) == [ok |-> TRUE, text |-> text]
TransportFailure == [ok |-> FALSE, text |-> <<>>]

\* the outcome of a function: its return value or the exception it raises,
\* and the model requests it issued
Returned(value, reqs) == [exc |-> "none", val |-> value, calls |-> reqs]
Raised(e, reqs) == [exc |-> e, val |-> None, calls |-> reqs]
\* no operation ran yet
NotRun == [exc |-> "not run", val |-> None, calls |-> <<>>]

\* lease_text[:n]
MetadataCutoff == 8000
RightsCutoff == 4000

\* variant: the slice keeps the last n elements
Truncate_last(text, n) ==
    SubSeq(text, IF Len(text) < n THEN 1 ELSE Len(text) - n + 1, Len(text))

\* text[:n]
Truncate(text, n) ==
    SubSeq(text, 1, IF Len(text) < n THEN Len(text) ELSE n)

Request(name, args) == [name |-> name, args |-> args]

\* variant: the sentinel keeps the matched text, not the completion
parse_metadata_keeps_match(completion) ==
    LET decoded == json_loads(Candidate("{", "}", completion))
    IN  IF decoded.ok THEN decoded.val
        ELSE MetadataSentinel(Candidate("{", "}", completion))

\* the try block of extract_lease_metadata
parse_metadata(completion) ==
    LET decoded == json_loads(Candidate("{", "}", completion))
    IN  IF decoded.ok THEN decoded.val ELSE MetadataSentinel(completion)

\* variant: a decode failure yields no clause at all
parse_clauses_empty(completion) ==
    LET decoded == json_loads(Candidate("[", "]", completion))
    IN  IF decoded.ok THEN decoded.val ELSE EmptyList

\* the try block of identify_problematic_clauses
parse_clauses(completion) ==
    LET decoded == json_loads(Candidate("[", "]", completion))
    IN  IF decoded.ok THEN decoded.val ELSE List(<<ClauseSentinel>>)

\* LeaseAnalyzer.extract_lease_metadata(lease_text); text is a str
extract_lease_metadata(text, llm) ==
    LET reqs == <<Request("extract-metadata", <<Truncate(text, MetadataCutoff)>>)>>
    IN  IF ~llm.ok THEN Raised("transport", reqs)
        ELSE Returned(parse_metadata(llm.text), reqs)

\* LeaseAnalyzer.identify_problematic_clauses(lease_text)
identify_problematic_clauses(text, llm) ==
    LET reqs == <<Request("identify-issues", <<text>>)>>
    IN  IF ~llm.ok THEN Raised("transport", reqs)
        ELSE Returned(parse_clauses(llm.text), reqs)

(***************************************************************************)
(* Python helpers                                                          *)
(***************************************************************************)
\* d.get(key, default) on a dict d
Get(d, key, default) ==
    IF Key(key) \in DOMAIN d.v THEN d.v[Key(key)] ELSE default

\* len(x) is defined
HasLen(x) == x.k \in {"str", "list", "dict"}
PyLen(x) == IF x.k = "dict" THEN Cardinality(DOMAIN x.v) ELSE Len(x.v)

\* what `for c in x` yields: the items of a list, the keys of a dict, the
\* characters of a str (here: its elements); x has a length
RECURSIVE KeysOf(_)
KeysOf(keys) ==
    IF keys = {} THEN <<>>
    ELSE LET key == CHOOSE key \in keys : TRUE
         IN  <<Str(key)>> \o KeysOf(keys \ {key})
Iter(x) ==
    CASE x.k = "list" -> x.v
      [] x.k = "dict" -> KeysOf(DOMAIN x.v)
      [] x.k = "str" -> [i \in 1..Len(x.v) |-> Str(<<x.v[i]>>)]

\* repr(x) and str(x) as text; dict keys come in the order KeysOf gives
RECURSIVE Repr(_)
RECURSIVE ReprItems(_, _)
ReprItems(items, i) ==
    IF i > Len(items) THEN <<>>
    ELSE (IF i > 1 THEN <<",", " ">> ELSE <<>>) \o Repr(items[i])
         \o ReprItems(items, i + 1)
RECURSIVE ReprPairs(_, _, _)
ReprPairs(d, keys, i) ==
    IF i > Len(keys) THEN <<>>
    ELSE (IF i > 1 THEN <<",", " ">> ELSE <<>>) \o Repr(keys[i]) \o <<":", " ">>
         \o Repr(d.v[keys[i].v]) \o ReprPairs(d, keys, i + 1)
Repr(x) ==
    CASE x.k = "none" -> <<"None">>
      [] x.k = "bool" -> IF x.v THEN <<"True">> ELSE <<"False">>
      [] x.k = "num" -> <<ToString(x.v)>>
      [] x.k = "float" -> <<ToString(x.v), ".", "0">>
      [] x.k = "str" -> <<"'">> \o x.v \o <<"'">>
      [] x.k = "list" -> <<"[">> \o ReprItems(x.v, 1) \o <<"]">>
      [] x.k = "dict" -> <<"{">> \o ReprPairs(x, Iter(x), 1) \o <<"}">>
Format(x) == IF x.k = "str" THEN x.v ELSE Repr(x)

\* x[:150]; the clause texts of the model are shorter than 150 characters
Sliceable(x) == x.k \in {"str", "list"}

(***************************************************************************)
(* LeaseAnalyzer: the plain-text operations                                *)
(***************************************************************************)
\* summarize_lease(lease_text)
\* summarize_lease that answers with an empty summary when its request fails
summarize_lease_swallow(text, llm) ==
    Returned(IF llm.ok THEN Str(llm.text) ELSE EmptyStr,
             <<Request("summarize", <<text>>)>>)

summarize_lease(text, llm) ==
    LET reqs == <<Request("summarize", <<text>>)>>
    IN  IF ~llm.ok THEN Raised("transport", reqs)
        ELSE Returned(Str(llm.text), reqs)

\* variant: the completion is returned without the whitespace around it
get_rental_price_context_stripped(city, state, zip_code, bedrooms, monthly_rent, llm) ==
    LET reqs == <<Request("price-context",
                          <<city, state, zip_code, bedrooms, monthly_rent>>)>>
        inner == {i \in DOMAIN llm.text : ~IsWs(llm.text[i])}
        first == CHOOSE i \in inner : \A j \in inner : i <= j
        last == CHOOSE i \in inner : \A j \in inner : j <= i
    IN  IF ~llm.ok THEN Raised("transport", reqs)
        ELSE Returned(Str(IF inner = {} THEN <<>>
                          ELSE SubSeq(llm.text, first, last)), reqs)

\* get_rental_price_context(city, state, zip_code, bedrooms, monthly_rent)
get_rental_price_context(city, state, zip_code, bedrooms, monthly_rent, llm) ==
    LET reqs == <<Request("price-context",
                          <<city, state, zip_code, bedrooms, monthly_rent>>)>>
    IN  IF ~llm.ok THEN Raised("transport", reqs)
        ELSE Returned(Str(llm.text), reqs)

\* get_tenant_rights_advice(lease_text, state, city)
get_tenant_rights_advice(text, state, city, llm) ==
    LET location == IF Truthy(city)
                    THEN Str(Format(city) \o <<",", " ">> \o Format(state))
                    ELSE state
        reqs == <<Request("rights-advice",
                          <<location, Truncate(text, RightsCutoff)>>)>>
    IN  IF ~llm.ok THEN Raised("transport", reqs)
        ELSE Returned(Str(llm.text), reqs)

\* the number of clauses rewritten at most
RewriteLimit == 5

\* a filter that keeps every clause
IsHighPriority_any(c) == TRUE

IsHighPriority(c) ==
    LET severity == Get(c, "severity", None)
    IN  severity = W("High") \/ severity = W("Medium")

\* a loop that sends every rewrite request twice
RECURSIVE RewriteLoop_twice(_, _, _, _, _)
RewriteLoop_twice(todo, i, llms, rewrites, reqs) ==
    IF i > Len(todo) THEN Returned(List(rewrites), reqs)
    ELSE
      LET clause_info == todo[i]
          req == Request("rewrite-clause",
                         <<Get(clause_info, "clause", EmptyStr),
                           Get(clause_info, "issue", EmptyStr)>>)
      IN  IF ~llms[i].ok THEN Raised("transport", Append(reqs, req))
          ELSE RewriteLoop_twice(todo, i + 1, llms,
                 Append(rewrites,
                        Dict((Key("original_clause") :> Get(clause_info, "clause", EmptyStr))
                             @@ (Key("severity") :> Get(clause_info, "severity", EmptyStr))
                             @@ (Key("rewrite_suggestion") :> Str(llms[i].text)))),
                 reqs \o <<req, req>>)

\* the loop of suggest_lease_rewrites over high_priority[:5], from clause i
RECURSIVE RewriteLoop(_, _, _, _, _)
RewriteLoop(todo, i, llms, rewrites, reqs) ==
    IF i > Len(todo) THEN Returned(List(rewrites), reqs)
    ELSE
      LET clause_info == todo[i]
          req == Request("rewrite-clause",
                         <<Get(clause_info, "clause", EmptyStr),
                           Get(clause_info, "issue", EmptyStr)>>)
      IN  IF ~llms[i].ok THEN Raised("transport", Append(reqs, req))
          ELSE RewriteLoop(todo, i + 1, llms,
                 Append(rewrites,
                        Dict((Key("original_clause") :> Get(clause_info, "clause", EmptyStr))
                             @@ (Key("severity") :> Get(clause_info, "severity", EmptyStr))
                             @@ (Key("rewrite_suggestion") :> Str(llms[i].text)))),
                 Append(reqs, req))

\* suggest_lease_rewrites that takes the last RewriteLimit clauses of
\* high_priority
suggest_lease_rewrites_last(problematic_clauses, text, llms) ==
    IF ~Truthy(problematic_clauses) THEN Returned(EmptyList, <<>>)
    ELSE LET high_priority == SelectSeq(Iter(problematic_clauses), IsHighPriority)
             n == Len(high_priority)
         IN  RewriteLoop(SubSeq(high_priority,
                                IF n > RewriteLimit THEN n - RewriteLimit + 1 ELSE 1, n),
                         1, llms, <<>>, <<>>)

\* suggest_lease_rewrites(problematic_clauses, lease_text); llms[i] is what
\* the i-th rewrite request meets
suggest_lease_rewrites(problematic_clauses, text, llms) ==
    IF ~Truthy(problematic_clauses) THEN Returned(EmptyList, <<>>)
    ELSE IF ~HasLen(problematic_clauses) THEN Raised("TypeError", <<>>)
    ELSE
      LET items == Iter(problematic_clauses)
      IN  IF \E i \in DOMAIN items : items[i].k # "dict"
          THEN Raised("AttributeError", <<>>)
          ELSE
            LET high_priority == SelectSeq(items, IsHighPriority)
                top == SubSeq(high_priority, 1,
                              IF Len(high_priority) < RewriteLimit
                              THEN Len(high_priority) ELSE RewriteLimit)
            IN  IF Len(high_priority) = 0 THEN Returned(EmptyList, <<>>)
                ELSE RewriteLoop(top, 1, llms, <<>>, <<>>)

(***************************************************************************)
(* What the model endpoint does during one operation                       *)
(***************************************************************************)
\* the answers of the model to the plain-text requests, by request
PlainAnswers == <<
    [summarize |-> <<>>, price |-> <<>>, rights |-> <<>>,
     rewrite |-> [i \in 1..RewriteLimit |-> <<>>]],
    [summarize |-> <<"The", " ", "summary">>,
     price |-> <<"The", " ", "price">>,
     rights |-> <<"The", " ", "rights">>,
     rewrite |-> [i \in 1..RewriteLimit |-> <<"Rewrite", " ", ToString(i)>>]]
>>

\* the answers of the model to the extract-metadata request
MetadataAnswers == <<
    <<"{", "\"", "city", "\"", ":", "\"", "San", " ", "Francisco", "\"", ",",
      "\"", "state", "\"", ":", "\"", "CA", "\"", ",",
      "\"", "monthly_rent", "\"", ":", "2500", "}">>,
    <<"{", "\"", "city", "\"", ":", "null", ",",
      "\"", "monthly_rent", "\"", ":", "2500", "}">>,
    <<"I", " ", "could", " ", "not", " ", "determine", " ", "this">>,
    <<"{", "}">>,
    <<"null">>,
    <<"[", "1", "]">>
>>

\* the JSON text of a clause object
ClauseJson(clause, severity) ==
    <<"{", "\"", "clause", "\"", ":", "\"", clause, "\"", ",",
      "\"", "severity", "\"", ":", "\"", severity, "\"", "}">>

\* the answers of the model to the identify-issues request
IssuesAnswers == <<
    <<"[", "{", "\"", "clause", "\"", ":", "\"", "No", " ", "pets", "\"", ",",
           "\"", "severity", "\"", ":", "\"", "High", "\"", ",",
           "\"", "potentially_illegal", "\"", ":", "true", "}", ",",
      "{", "\"", "clause", "\"", ":", "\"", "Late", " ", "fee", "\"", ",",
           "\"", "severity", "\"", ":", "\"", "Low", "\"", "}", ",",
      "{", "\"", "severity", "\"", ":", "\"", "Medium", "\"", ",",
           "\"", "clause", "\"", ":", "null", "}", "]">>,
    <<"[", "]">>,
    <<"No", " ", "issues", " ", "found">>,
    <<"[", "1", "]">>,
    <<"{", "\"", "a", "\"", ":", "1", "}">>,
    <<"1">>,
    <<"[", "{", "\"", "clause", "\"", ":", "\"", "No", " ", "pets", "\"", ",",
           "\"", "severity", "\"", ":", "null", "}", "]">>,
    <<"[">> \o ClauseJson("a", "High") \o <<",">> \o ClauseJson("b", "Low")
    \o <<",">> \o ClauseJson("c", "Medium") \o <<",">> \o ClauseJson("d", "High")
    \o <<",">> \o ClauseJson("e", "Medium") \o <<",">> \o ClauseJson("f", "High")
    \o <<",">> \o ClauseJson("g", "Medium") \o <<"]">>
>>

\* the most requests one operation issues: summarize, identify-issues,
\* price-context, the rewrites and rights-advice
MaxCalls == 4 + RewriteLimit

\* one operation's environment: which request fails (0: none) and what the
\* model answers to the others
Envs ==
    [fail : 0..MaxCalls, meta : DOMAIN MetadataAnswers,
     issues : DOMAIN IssuesAnswers, plain : DOMAIN PlainAnswers]

\* what the n-th request of the operation meets
Llm(env, n, answer) ==
    IF env.fail = n THEN TransportFailure ELSE Completion(answer)

\* the failed request, if the operation came to issue it
Fault(env, out) == IF env.fail \in 1..Len(out.calls) THEN env.fail ELSE 0

(***************************************************************************)
(* LeaseAnalyzerAgent                                                      *)
(***************************************************************************)
ErrNoLease == Str(<<"Error: No lease loaded. Please load a lease first.">>)
ErrNoMetadata == Str(<<"Error: No lease loaded or metadata unavailable.">>)
ErrMissingInfo ==
    Str(<<"Error: Missing required information (city, state, or rent amount)">>)
NoClauses == Str(<<"No problematic clauses identified.">>)
NoRewrites == Str(<<"No significant issues found that require rewriting.">>)

LoadSuccess(message, md) ==
    Dict((Key("status") :> W("success"))
         @@ (Key("message") :> Str(<<message>>))
         @@ (Key("metadata") :> md))

\* variant: the error result carries no message
LoadError_status_only(e) == Dict(Key("status") :> W("error"))

\* {"status": "error", "message": str(e)}
LoadError(e) ==
    Dict((Key("status") :> W("error")) @@ (Key("message") :> Str(<<e>>)))

\* analyze_full_lease without a lease
NoLeaseResult ==
    Dict((Key("status") :> W("error"))
         @@ (Key("message") :> Str(<<"No lease loaded. Please load a lease first.">>)))

\* a session operation: its outcome and the fields of the agent after it
Session(out, text, md) == [out |-> out, lease_text |-> text, metadata |-> md]

\* what extract_lease_text does: it returns the text of the PDF or raises
Pdf(text) == [ok |-> TRUE, text |-> text]
PdfFailure == [ok |-> FALSE, text |-> <<>>]

\* load_lease(file_path)
load_lease(self_text, self_md, pdf, env) ==
    IF ~pdf.ok
    THEN Session(Returned(LoadError("extract_lease_text"), <<>>), self_text, self_md)
    ELSE
      LET r == extract_lease_metadata(pdf.text,
                                      Llm(env, 1, MetadataAnswers[env.meta]))
      IN  IF r.exc # "none"
          THEN Session(Returned(LoadError(r.exc), r.calls), Str(pdf.text), self_md)
          ELSE Session(Returned(LoadSuccess("Lease loaded successfully", r.val),
                                r.calls),
                       Str(pdf.text), r.val)

\* variant: no except clause around the extraction
load_lease_text_no_except(self_text, self_md, text, manual_metadata, env) ==
    IF Truthy(manual_metadata)
    THEN Session(Returned(LoadSuccess("Lease text loaded successfully",
                                      manual_metadata), <<>>),
                 text, manual_metadata)
    ELSE
      LET r == extract_lease_metadata(text.v,
                                      Llm(env, 1, MetadataAnswers[env.meta]))
      IN  IF r.exc # "none"
          THEN Session(r, text, self_md)
          ELSE Session(Returned(LoadSuccess("Lease text loaded successfully",
                                            r.val), r.calls),
                       text, r.val)

\* load_lease_text(text, manual_metadata)
load_lease_text(self_text, self_md, text, manual_metadata, env) ==
    IF Truthy(manual_metadata)
    THEN Session(Returned(LoadSuccess("Lease text loaded successfully",
                                      manual_metadata), <<>>),
                 text, manual_metadata)
    ELSE
      LET r == extract_lease_metadata(text.v,
                                      Llm(env, 1, MetadataAnswers[env.meta]))
      IN  IF r.exc # "none"
          THEN Session(Returned(LoadError(r.exc), r.calls), text, self_md)
          ELSE Session(Returned(LoadSuccess("Lease text loaded successfully",
                                            r.val), r.calls),
                       text, r.val)

\* variant: no check that a lease is loaded
get_summary_wrapper_no_guard(self_text, self_md, env) ==
    summarize_lease(Format(self_text),
                    Llm(env, 1, PlainAnswers[env.plain].summarize))

\* _get_summary_wrapper
get_summary_wrapper(self_text, self_md, env) ==
    IF ~Truthy(self_text) THEN Returned(ErrNoLease, <<>>)
    ELSE summarize_lease(self_text.v,
                         Llm(env, 1, PlainAnswers[env.plain].summarize))

\* the loop of _get_issues_wrapper from clause i on; text is `result` so far
RECURSIVE IssuesLines(_, _, _)
IssuesLines(items, i, text) ==
    IF i > Len(items) THEN [exc |-> "none", text |-> text]
    ELSE
      LET clause == items[i]
      IN  IF clause.k # "dict" THEN [exc |-> "AttributeError", text |-> text]
          ELSE IF ~Sliceable(Get(clause, "clause", EmptyStr))
          THEN [exc |-> "TypeError", text |-> text]
          ELSE IssuesLines(items, i + 1,
                 text \o <<ToString(i), ".", " ", "[">>
                      \o Format(Get(clause, "severity", W("Unknown"))) \o <<"]", " ">>
                      \o (IF Truthy(Get(clause, "potentially_illegal", None))
                          THEN <<"POTENTIALLY ILLEGAL", "\n">> ELSE <<"\n">>)
                      \o <<"   Clause: ">> \o Format(Get(clause, "clause", EmptyStr))
                      \o <<"...", "\n", "   Issue: ">>
                      \o Format(Get(clause, "issue", EmptyStr))
                      \o <<"\n", "   Recommendation: ">>
                      \o Format(Get(clause, "recommendation", EmptyStr))
                      \o <<"\n", "\n">>)

\* _get_issues_wrapper
get_issues_wrapper(self_text, self_md, env) ==
    IF ~Truthy(self_text) THEN Returned(ErrNoLease, <<>>)
    ELSE
      LET r == identify_problematic_clauses(self_text.v,
                   Llm(env, 1, IssuesAnswers[env.issues]))
          clauses == r.val
      IN  IF r.exc # "none" THEN r
          ELSE IF ~Truthy(clauses) THEN Returned(NoClauses, r.calls)
          ELSE IF ~HasLen(clauses) THEN Raised("TypeError", r.calls)
          ELSE
            LET lines == IssuesLines(Iter(clauses), 1,
                           <<"Found ", ToString(PyLen(clauses)),
                             " potential issues:", "\n", "\n">>)
            IN  IF lines.exc # "none" THEN Raised(lines.exc, r.calls)
                ELSE Returned(Str(lines.text), r.calls)

\* _get_price_analysis_wrapper
get_price_analysis_wrapper(self_text, self_md, env) ==
    IF ~Truthy(self_md) THEN Returned(ErrNoMetadata, <<>>)
    ELSE IF self_md.k # "dict" THEN Raised("AttributeError", <<>>)
    ELSE
      LET city == Get(self_md, "city", None)
          state == Get(self_md, "state", None)
          zip_code == Get(self_md, "zip_code", None)
          bedrooms == Get(self_md, "number_of_bedrooms", Num(1))
          rent == Get(self_md, "monthly_rent", None)
      IN  IF ~(Truthy(city) /\ Truthy(state) /\ Truthy(rent))
          THEN Returned(ErrMissingInfo, <<>>)
          ELSE get_rental_price_context(city, state, zip_code, bedrooms, rent,
                   Llm(env, 1, PlainAnswers[env.plain].price))

\* the loop of _get_rewrites_wrapper from rewrite i on
RECURSIVE RewritesLines(_, _, _)
RewritesLines(items, i, text) ==
    IF i > Len(items) THEN [exc |-> "none", text |-> text]
    ELSE
      LET rewrite == items[i]
      IN  IF ~Sliceable(Get(rewrite, "original_clause", EmptyStr))
          THEN [exc |-> "TypeError", text |-> text]
          ELSE RewritesLines(items, i + 1,
                 text \o <<ToString(i), ".", " ">>
                      \o Format(Get(rewrite, "severity", EmptyStr))
                      \o <<" Severity Issue", "\n", "   Original: ">>
                      \o Format(Get(rewrite, "original_clause", EmptyStr))
                      \o <<"...", "\n", "   ">>
                      \o Format(Get(rewrite, "rewrite_suggestion", EmptyStr))
                      \o <<"\n", "\n">>)

\* llms for suggest_lease_rewrites when n requests were issued before it
RewriteLlms(env, n) ==
    [i \in 1..RewriteLimit |-> Llm(env, n + i, PlainAnswers[env.plain].rewrite[i])]

\* _get_rewrites_wrapper
get_rewrites_wrapper(self_text, self_md, env) ==
    IF ~Truthy(self_text) THEN Returned(ErrNoLease, <<>>)
    ELSE
      LET r == identify_problematic_clauses(self_text.v,
                   Llm(env, 1, IssuesAnswers[env.issues]))
          clauses == r.val
      IN  IF r.exc # "none" THEN r
          ELSE IF ~Truthy(clauses) THEN Returned(NoClauses, r.calls)
          ELSE
            LET w == suggest_lease_rewrites(clauses, self_text.v, RewriteLlms(env, 1))
                reqs == r.calls \o w.calls
            IN  IF w.exc # "none" THEN Raised(w.exc, reqs)
                ELSE IF ~Truthy(w.val) THEN Returned(NoRewrites, reqs)
                ELSE
                  LET lines == RewritesLines(w.val.v, 1,
                                 <<"Suggested rewrites for ", ToString(Len(w.val.v)),
                                   " clauses:", "\n", "\n">>)
                  IN  IF lines.exc # "none" THEN Raised(lines.exc, reqs)
                      ELSE Returned(Str(lines.text), reqs)

\* _get_rights_wrapper
get_rights_wrapper(self_text, self_md, env) ==
    IF ~Truthy(self_text) \/ ~Truthy(self_md) THEN Returned(ErrNoLease, <<>>)
    ELSE IF self_md.k # "dict" THEN Raised("AttributeError", <<>>)
    ELSE get_tenant_rights_advice(self_text.v,
                                  Get(self_md, "state", W("Unknown")),
                                  Get(self_md, "city", None),
                                  Llm(env, 1, PlainAnswers[env.plain].rights))

\* analyze_full_lease
analyze_full_lease(self_text, self_md, env) ==
    IF ~Truthy(self_text) THEN Returned(NoLeaseResult, <<>>)
    ELSE
      LET answers == PlainAnswers[env.plain]
          summary == summarize_lease(self_text.v, Llm(env, 1, answers.summarize))
          clauses == identify_problematic_clauses(self_text.v,
                         Llm(env, 2, IssuesAnswers[env.issues]))
          reqs2 == summary.calls \o clauses.calls
      IN  IF summary.exc # "none" THEN summary
          ELSE IF clauses.exc # "none" THEN Raised(clauses.exc, reqs2)
          \* len(results['problematic_clauses'])
          ELSE IF ~HasLen(clauses.val) THEN Raised("TypeError", reqs2)
          \* self.metadata.get
          ELSE IF self_md.k # "dict" THEN Raised("AttributeError", reqs2)
          ELSE
            LET gate == /\ Truthy(Get(self_md, "monthly_rent", None))
                        /\ Truthy(Get(self_md, "city", None))
                price == IF gate
                         THEN get_rental_price_context(
                                  Get(self_md, "city", EmptyStr),
                                  Get(self_md, "state", EmptyStr),
                                  Get(self_md, "zip_code", EmptyStr),
                                  Get(self_md, "number_of_bedrooms", Num(1)),
                                  Get(self_md, "monthly_rent", Num(0)),
                                  Llm(env, 3, answers.price))
                         ELSE Returned(None, <<>>)
                reqs3 == reqs2 \o price.calls
                rewrites == suggest_lease_rewrites(clauses.val, self_text.v,
                                                   RewriteLlms(env, Len(reqs3)))
                reqs4 == reqs3 \o rewrites.calls
                rights == get_tenant_rights_advice(self_text.v,
                              Get(self_md, "state", EmptyStr),
                              Get(self_md, "city", None),
                              Llm(env, Len(reqs4) + 1, answers.rights))
                reqs5 == reqs4 \o rights.calls
            IN  IF price.exc # "none" THEN Raised(price.exc, reqs3)
                ELSE IF rewrites.exc # "none" THEN Raised(rewrites.exc, reqs4)
                ELSE IF rights.exc # "none" THEN Raised(rights.exc, reqs5)
                ELSE Returned(
                       Dict((Key("metadata") :> self_md)
                            @@ (Key("summary") :> summary.val)
                            @@ (Key("problematic_clauses") :> clauses.val)
                            @@ (Key("rental_price_analysis") :> price.val)
                            @@ (Key("rewrite_suggestions") :> rewrites.val)
                            @@ (Key("tenant_rights") :> rights.val)),
                       reqs5)

(***************************************************************************)
(* format_analysis_report.  The fixed pieces of the report (rules,         *)
(* headings without their pictograph, labels) are one element each.        *)
(***************************************************************************)
Heading ==
    [property |-> "PROPERTY INFORMATION\n",
     summary |-> "LEASE SUMMARY\n",
     issues |-> "PROBLEMATIC CLAUSES IDENTIFIED\n",
     price |-> "RENTAL PRICE ANALYSIS\n",
     rewrites |-> "SUGGESTED LEASE REWRITES\n",
     rights |-> "YOUR TENANT RIGHTS\n"]

\* "=" * 80 + "\n" and "-" * 80 + "\n"
Rule ==
    [double |-> "================================================================================\n",
     single |-> "--------------------------------------------------------------------------------\n"]

\* s.upper(), element by element; digits, punctuation and upper-case words
\* stay as they are
Upper(text) ==
    LET table == ("High" :> "HIGH") @@ ("Medium" :> "MEDIUM") @@ ("Low" :> "LOW")
                 @@ ("Unknown" :> "UNKNOWN") @@ ("a" :> "A")
    IN  [i \in DOMAIN text |->
            IF text[i] \in DOMAIN table THEN table[text[i]] ELSE text[i]]

\* the first exception of a sequence of outcomes, "none" if there is none
FirstExc(excs) ==
    IF \A i \in DOMAIN excs : excs[i] = "none" THEN "none"
    ELSE excs[CHOOSE i \in DOMAIN excs :
                 /\ excs[i] # "none"
                 /\ \A j \in 1..(i - 1) : excs[j] = "none"]

\* one clause of the report: the exception it raises ("none" if none) and
\* the lines it adds; enumerate(clauses, 1) gave (i, clause)
ClauseItem(i, clause) ==
    IF clause.k # "dict" \/ Get(clause, "severity", W("Unknown")).k # "str"
    THEN [exc |-> "AttributeError", lines |-> <<>>]
    ELSE [exc |-> "none",
          lines |->
            <<"\n", ToString(i), ".", " ", "[">>
            \o Upper(Get(clause, "severity", W("Unknown")).v) \o <<"]", " ">>
            \o (IF Truthy(Get(clause, "potentially_illegal", None))
                THEN <<"POTENTIALLY ILLEGAL\n">> ELSE <<"\n">>)
            \o <<"   Clause: ">> \o Format(Get(clause, "clause", W("N/A")))
            \o <<"\n">>
            \o <<"   Issue: ">> \o Format(Get(clause, "issue", W("N/A")))
            \o <<"\n">>
            \o <<"   Recommendation: ">>
            \o Format(Get(clause, "recommendation", W("N/A"))) \o <<"\n">>]

\* one rewrite of the report
RewriteItem(i, rewrite) ==
    IF rewrite.k # "dict" THEN [exc |-> "AttributeError", lines |-> <<>>]
    ELSE [exc |-> "none",
          lines |->
            <<"\n", ToString(i), ".", " ">>
            \o Format(Get(rewrite, "severity", EmptyStr))
            \o <<" Severity Issue\n">>
            \o <<"   Original Clause: ">>
            \o Format(Get(rewrite, "original_clause", W("N/A")))
            \o <<"\n", "   Suggested Changes:\n", "   ">>
            \o Format(Get(rewrite, "rewrite_suggestion", W("N/A"))) \o <<"\n">>]

\* the concatenation of the texts of a sequence
RECURSIVE Concat(_)
Concat(texts) ==
    IF texts = <<>> THEN <<>> ELSE Head(texts) \o Concat(Tail(texts))

\* `if xs: for i, x in enumerate(xs, 1): ... else: report += otherwise`;
\* items are the outcomes of the loop's body on the elements of xs, read
\* only when xs can be iterated
Loop(xs, items, otherwise) ==
    IF ~Truthy(xs) THEN [exc |-> "none", lines |-> <<otherwise>>]
    ELSE IF ~HasLen(xs) THEN [exc |-> "TypeError", lines |-> <<>>]
    ELSE [exc |-> FirstExc([i \in DOMAIN items |-> items[i].exc]),
          lines |-> Concat([i \in DOMAIN items |-> items[i].lines])]

\* the property section
PropertyLines(metadata_) ==
    <<"Address: ">> \o Format(Get(metadata_, "property_address", W("N/A")))
    \o <<"\n">>
    \o <<"City: ">> \o Format(Get(metadata_, "city", W("N/A"))) \o <<",", " ">>
    \o Format(Get(metadata_, "state", W("N/A"))) \o <<" ">>
    \o Format(Get(metadata_, "zip_code", W("N/A"))) \o <<"\n">>
    \o <<"Monthly Rent: $">> \o Format(Get(metadata_, "monthly_rent", W("N/A")))
    \o <<"\n">>
    \o <<"Security Deposit: $">>
    \o Format(Get(metadata_, "security_deposit", W("N/A"))) \o <<"\n">>
    \o <<"Lease Term: ">> \o Format(Get(metadata_, "lease_start_date", W("N/A")))
    \o <<" ", "to", " ">> \o Format(Get(metadata_, "lease_end_date", W("N/A")))
    \o <<"\n">>
    \o <<"Bedrooms: ">> \o Format(Get(metadata_, "number_of_bedrooms", W("N/A")))
    \o <<",", " ", "Bathrooms: ">>
    \o Format(Get(metadata_, "number_of_bathrooms", W("N/A")))
    \o <<"\n", "\n">>

\* variant: the price section is added for every value but None
PriceSection_unless_None(price) ==
    IF price # None
    THEN <<Heading.price, Rule.single>> \o Format(price) \o <<"\n", "\n">>
    ELSE <<>>

\* `if results.get('rental_price_analysis'):` and the lines it adds; the
\* value is a str when the lines are built
PriceSection(price) ==
    IF Truthy(price)
    THEN <<Heading.price, Rule.single>> \o price.v \o <<"\n", "\n">>
    ELSE <<>>

\* variant: format_analysis_report reads the metadata of the session
format_analysis_report_of_session(res) ==
    Returned(Str(<<Heading.property>> \o PropertyLines(
                     IF metadata.k = "dict" THEN metadata ELSE EmptyDict)),
             <<>>)

\* format_analysis_report(results)
format_analysis_report(res) ==
    LET metadata_ == Get(res, "metadata", EmptyDict)
        summary == Get(res, "summary", W("N/A"))
        cs == Get(res, "problematic_clauses", EmptyList)
        clauses == Loop(cs, [i \in DOMAIN Iter(cs) |-> ClauseItem(i, Iter(cs)[i])],
                        "No significant issues identified.\n")
        price == Get(res, "rental_price_analysis", None)
        rs == Get(res, "rewrite_suggestions", EmptyList)
        rewrites == Loop(rs, [i \in DOMAIN Iter(rs) |-> RewriteItem(i, Iter(rs)[i])],
                         "No rewrites suggested.\n")
        rights == Get(res, "tenant_rights", W("N/A"))
        exc == FirstExc(<<
                 IF metadata_.k = "dict" THEN "none" ELSE "AttributeError",
                 IF summary.k = "str" THEN "none" ELSE "TypeError",
                 clauses.exc,
                 IF Truthy(price) /\ price.k # "str" THEN "TypeError" ELSE "none",
                 rewrites.exc,
                 IF rights.k = "str" THEN "none" ELSE "TypeError">>)
    IN  IF exc # "none" THEN Raised(exc, <<>>)
        ELSE Returned(Str(
               <<Rule.double, "LEASE ANALYSIS REPORT\n", Rule.double, "\n">>
               \o <<Heading.property, Rule.single>> \o PropertyLines(metadata_)
               \o <<Heading.summary, Rule.single>> \o summary.v \o <<"\n", "\n">>
               \o <<Heading.issues, Rule.single>> \o clauses.lines \o <<"\n">>
               \o PriceSection(price)
               \o <<Heading.rewrites, Rule.single>> \o rewrites.lines \o <<"\n">>
               \o <<Heading.rights, Rule.single>> \o rights.v \o <<"\n", "\n">>
               \o <<Rule.double, "END OF REPORT\n", Rule.double>>),
             <<>>)

(***************************************************************************)
(* The session: a caller of LeaseAnalyzerAgent                             *)
(***************************************************************************)
TextA == Str(<<"Lease", " ", "A">>)
TextB == Str(<<"Lease", " ", "B">>)
Texts == <<EmptyStr, TextA, TextB>>

\* what a caller passes as manual_metadata
ManualMetadata == <<
    None,
    EmptyDict,
    Dict((Key("city") :> Str(<<"San", " ", "Francisco">>)) @@ (Key("state") :> W("CA"))
         @@ (Key("monthly_rent") :> Num(2500))),
    Dict((Key("city") :> None) @@ (Key("state") :> W("CA"))
         @@ (Key("monthly_rent") :> Num(2500))),
    Dict((Key("city") :> Str(<<"San", " ", "Francisco">>))
         @@ (Key("monthly_rent") :> Num(2500)))
>>

LoadOps == {"load_lease", "load_lease_text"}
AnalysisOps == {"summarize", "find_issues", "price_context",
                "rewrite_suggestions", "rights_advice", "run_full_analysis"}

Op(name, text, manual, fault) ==
    [name |-> name, text |-> text, manual |-> manual, fault |-> fault]

\* the environments that differ in what an operation of at most n requests,
\* reading the given answers, can see
EnvsOf(n, metas, issues, plains) ==
    [fail : 0..n, meta : metas, issues : issues, plain : plains]

Init ==
    /\ lease_text = None
    /\ metadata = None
    /\ lease_loaded = FALSE
    /\ results = None
    /\ op = Op("init", None, None, 0)
    /\ ret = NotRun
    /\ calls = <<>>
    /\ result = <<>>
    /\ shape = "none"
    /\ extracted = NotRun

\* a session operation ran: the agent's fields and the outcome
Ran(name, text, manual, env, s) ==
    /\ lease_text' = s.lease_text
    /\ metadata' = s.metadata
    /\ op' = Op(name, text, manual, Fault(env, s.out))
    /\ ret' = s.out
    /\ calls' = s.out.calls

LoadLease ==
    /\ \E pdf \in {PdfFailure, Pdf(Texts[1].v), Pdf(Texts[2].v), Pdf(Texts[3].v)} :
       \E env \in EnvsOf(1, DOMAIN MetadataAnswers, {1}, {1}) :
         Ran("load_lease", IF pdf.ok THEN Str(pdf.text) ELSE None, None, env,
             load_lease(lease_text, metadata, pdf, env))
    /\ UNCHANGED <<lease_loaded, results, extractVars>>

LoadLeaseText ==
    /\ \E t \in DOMAIN Texts : \E m \in DOMAIN ManualMetadata :
       \E env \in EnvsOf(1, DOMAIN MetadataAnswers, {1}, {1}) :
         Ran("load_lease_text", Texts[t], ManualMetadata[m], env,
             load_lease_text(lease_text, metadata, Texts[t], ManualMetadata[m], env))
    /\ UNCHANGED <<lease_loaded, results, extractVars>>

\* variant: an analysis operation that raises discards the document
Analysed_discards(name, env, out) ==
    Ran(name, None, None, env,
        IF out.exc = "none" THEN Session(out, lease_text, metadata)
        ELSE Session(out, None, None))

\* an analysis operation leaves the agent's fields alone
Analysed(name, env, out) ==
    Ran(name, None, None, env, Session(out, lease_text, metadata))

Summarize ==
    /\ \E env \in EnvsOf(1, {1}, {1}, DOMAIN PlainAnswers) :
         Analysed("summarize", env, get_summary_wrapper(lease_text, metadata, env))
    /\ UNCHANGED <<lease_loaded, results, extractVars>>

FindIssues ==
    /\ \E env \in EnvsOf(1, {1}, DOMAIN IssuesAnswers, {1}) :
         Analysed("find_issues", env, get_issues_wrapper(lease_text, metadata, env))
    /\ UNCHANGED <<lease_loaded, results, extractVars>>

PriceContext ==
    /\ \E env \in EnvsOf(1, {1}, {1}, DOMAIN PlainAnswers) :
         Analysed("price_context", env,
                  get_price_analysis_wrapper(lease_text, metadata, env))
    /\ UNCHANGED <<lease_loaded, results, extractVars>>

RewriteSuggestions ==
    /\ \E env \in EnvsOf(1 + RewriteLimit, {1}, DOMAIN IssuesAnswers, DOMAIN PlainAnswers) :
         Analysed("rewrite_suggestions", env,
                  get_rewrites_wrapper(lease_text, metadata, env))
    /\ UNCHANGED <<lease_loaded, results, extractVars>>

RightsAdvice ==
    /\ \E env \in EnvsOf(1, {1}, {1}, DOMAIN PlainAnswers) :
         Analysed("rights_advice", env, get_rights_wrapper(lease_text, metadata, env))
    /\ UNCHANGED <<lease_loaded, results, extractVars>>

\* variant: a run that follows a completed run returns the result of that
\* run again, without a request
RunFullAnalysis_cached ==
    /\ \E env \in EnvsOf(MaxCalls, {1}, DOMAIN IssuesAnswers, DOMAIN PlainAnswers) :
         Analysed("run_full_analysis", env,
                  IF op.name = "run_full_analysis" /\ ret.exc = "none"
                  THEN Returned(ret.val, <<>>)
                  ELSE analyze_full_lease(lease_text, metadata, env))
    /\ UNCHANGED <<lease_loaded, results, extractVars>>

RunFullAnalysis ==
    /\ \E env \in EnvsOf(MaxCalls, {1}, DOMAIN IssuesAnswers, DOMAIN PlainAnswers) :
         Analysed("run_full_analysis", env,
                  analyze_full_lease(lease_text, metadata, env))
    /\ UNCHANGED <<lease_loaded, results, extractVars>>

\* report = format_analysis_report(results), on the result the full analysis
\* has just returned
FormatLastResult ==
    /\ op.name = "run_full_analysis" /\ ret.exc = "none"
    /\ \E out \in {format_analysis_report(ret.val)} :
         /\ ret' = out
         /\ calls' = out.calls
    /\ op' = Op("format_report", None, None, 0)
    /\ UNCHANGED <<lease_text, metadata, lease_loaded, results, extractVars>>

\* the Streamlit session state and the fields of its agent
UiState(loaded, res, text, md) ==
    [lease_loaded |-> loaded, results |-> res, lease_text |-> text, metadata |-> md]

\* reset_analysis() that clears the session state and forgets the agent
reset_analysis_flags_only(st) ==
    UiState(FALSE, None, st.lease_text, st.metadata)

\* reset_analysis(); st.session_state.analyzer is the agent, constructed
\* before any handler runs
reset_analysis(st) == UiState(FALSE, None, None, None)

\* a caller runs reset_analysis(); op keeps what was discarded
Reset ==
    /\ \E st \in {reset_analysis(UiState(lease_loaded, results, lease_text, metadata))} :
         /\ lease_loaded' = st.lease_loaded
         /\ results' = st.results
         /\ lease_text' = st.lease_text
         /\ metadata' = st.metadata
    /\ op' = [name |-> "reset",
              discarded |-> UiState(lease_loaded, results, lease_text, metadata)]
    /\ ret' = Returned(None, <<>>)
    /\ calls' = <<>>
    /\ UNCHANGED extractVars

Next ==
    \/ LoadLease
    \/ LoadLeaseText
    \/ Summarize
    \/ FindIssues
    \/ PriceContext
    \/ RewriteSuggestions
    \/ RightsAdvice
    \/ RunFullAnalysis
    \/ FormatLastResult
    \/ Reset

Spec == Init /\ [][Next]_vars

(***************************************************************************)
(* The Streamlit application: one action per script run that a widget      *)
(* triggers.  st.rerun() ends the run; the run that follows is a step of   *)
(* its own.  What a run only displays is left out.                         *)
(***************************************************************************)
\* s.strip() == ""
IsBlank(t) == \A i \in DOMAIN t.v : IsWs(t.v[i])

\* what the manual entry form holds on submit; the fields not listed keep
\* their defaults (empty text, 0.0, 1 bedroom, 1.0 bathrooms, today)
Today == <<"2026", "-", "11", "-", "04">>
FormCities == <<EmptyStr, Str(<<"San", " ", "Francisco">>)>>
FormStates == <<EmptyStr, W("CA")>>
FormRents == <<Float(0), Float(2500)>>
FormClauses == <<EmptyStr, TextA>>

\* x if x else None
OrNone(x) == IF Truthy(x) THEN x ELSE None

\* the manual_metadata dict of the form
FormMetadata(city, state, monthly_rent) ==
    Dict((Key("property_address") :> OrNone(EmptyStr))
         @@ (Key("city") :> city)
         @@ (Key("state") :> state)
         @@ (Key("zip_code") :> OrNone(EmptyStr))
         @@ (Key("monthly_rent") :> IF monthly_rent.v > 0 THEN monthly_rent ELSE None)
         @@ (Key("security_deposit") :> None)
         @@ (Key("lease_start_date") :> Str(Today))
         @@ (Key("lease_end_date") :> Str(Today))
         @@ (Key("landlord_name") :> OrNone(EmptyStr))
         @@ (Key("number_of_bedrooms") :> Num(1))
         @@ (Key("number_of_bathrooms") :> Float(1)))

\* the lease text the form builds
FormText(city, state, monthly_rent, lease_clauses) ==
    IF ~IsBlank(lease_clauses)
    THEN Str(<<"Lease", " ", "for", " ", "property", " ", "at", " ",
               "address", " ", "not", " ", "specified", ",", " ">>
             \o city.v \o <<",", " ">> \o state.v \o <<".", "\n", "\n">>
             \o <<"Monthly", " ", "Rent", ":", " ", "$">> \o Format(monthly_rent)
             \o <<"\n", "Security", " ", "Deposit", ":", " ", "$">> \o Format(Float(0))
             \o <<"\n", "Lease", " ", "Term", ":", " ">> \o Today
             \o <<" ", "to", " ">> \o Today
             \o <<"\n", "\n", "Key", " ", "Clauses", ":", "\n", "\n">>
             \o lease_clauses.v)
    ELSE Str(<<"Lease", " ", "Agreement", "\n", "\n",
               "Property", ":", " ", "Not", " ", "specified", "\n",
               "Location", ":", " ">> \o city.v \o <<",", " ">> \o state.v
             \o <<" ", "\n", "Landlord", ":", " ", "Not", " ", "specified", "\n">>
             \o <<"Monthly", " ", "Rent", ":", " ", "$">> \o Format(monthly_rent)
             \o <<"\n", "Security", " ", "Deposit", ":", " ", "$">> \o Format(Float(0))
             \o <<"\n", "Bedrooms", ":", " ">> \o Format(Num(1))
             \o <<",", " ", "Bathrooms", ":", " ">> \o Format(Float(1))
             \o <<"\n", "Lease", " ", "Term", ":", " ">> \o Today
             \o <<" ", "to", " ">> \o Today \o <<"\n">>)

\* a load handler ran: lease_loaded is set when the result says success
UiLoaded(name, text, manual, env, s) ==
    /\ Ran(name, text, manual, env, s)
    /\ lease_loaded' = (lease_loaded \/ Get(s.out.val, "status", None) = W("success"))
    /\ UNCHANGED <<results, extractVars>>

\* a widget rejected its input: nothing is called
UiRejected(name, text, manual) ==
    /\ op' = Op(name, text, manual, 0)
    /\ ret' = NotRun
    /\ calls' = <<>>
    /\ UNCHANGED <<lease_text, metadata, lease_loaded, results, extractVars>>

\* "Upload PDF" with a file in the uploader
UiUploadPdf ==
    /\ ~lease_loaded
    /\ \E pdf \in {PdfFailure, Pdf(Texts[1].v), Pdf(Texts[2].v), Pdf(Texts[3].v)} :
       \E env \in EnvsOf(1, DOMAIN MetadataAnswers, {1}, {1}) :
         UiLoaded("load_lease", IF pdf.ok THEN Str(pdf.text) ELSE None, None, env,
                  load_lease(lease_text, metadata, pdf, env))

\* "Paste Text", button "Load Lease Text"
UiPasteText ==
    \E t \in DOMAIN Texts :
       IF IsBlank(Texts[t])
       THEN UiRejected("paste_rejected", Texts[t], None)
       ELSE \E env \in EnvsOf(1, DOMAIN MetadataAnswers, {1}, {1}) :
              UiLoaded("load_lease_text", Texts[t], None, env,
                       load_lease_text(lease_text, metadata, Texts[t], None, env))

\* "Enter Details Manually", button "Load Manual Entry"
UiManualEntry ==
    \E c \in DOMAIN FormCities, s \in DOMAIN FormStates,
       r \in DOMAIN FormRents, l \in DOMAIN FormClauses :
       LET city == FormCities[c]
           state == FormStates[s]
           text == FormText(city, state, FormRents[r], FormClauses[l])
           manual == FormMetadata(city, state, FormRents[r])
       IN  IF ~Truthy(city) \/ ~Truthy(state)
           THEN UiRejected("manual_rejected", None, None)
           ELSE \E env \in EnvsOf(1, {1}, {1}, {1}) :
                  UiLoaded("load_lease_text", text, manual, env,
                           load_lease_text(lease_text, metadata, text, manual, env))

\* the answers a run of the application meets: clauses, no clause, a
\* number in place of the clauses; non-empty plain texts
UiIssues == {1, 2, 6}
UiPlain == {2}

\* button "Start Over"
UiStartOver ==
    /\ lease_loaded
    /\ Reset

\* button "Run Full Analysis" in the mode "Full Analysis"; a raised
\* exception ends the run before results is assigned
UiRunFullAnalysis ==
    /\ lease_loaded
    /\ \E env \in EnvsOf(MaxCalls, {1}, UiIssues, UiPlain) :
       \E out \in {analyze_full_lease(lease_text, metadata, env)} :
         /\ Analysed("run_full_analysis", env, out)
         /\ results' = IF out.exc = "none" THEN out.val ELSE results
    /\ UNCHANGED <<lease_loaded, extractVars>>

NextUI ==
    \/ UiUploadPdf
    \/ UiPasteText
    \/ UiManualEntry
    \/ UiStartOver
    \/ UiRunFullAnalysis

SpecUI == Init /\ [][NextUI]_vars

(***************************************************************************)
(* Reports: format_analysis_report on the result of a full analysis,       *)
(* while the session goes on loading other documents                       *)
(***************************************************************************)
\* the metadata a session can hold: supplied by the caller, or extracted
SessionMetadata ==
    ManualMetadata
    \o [i \in DOMAIN MetadataAnswers |-> parse_metadata(MetadataAnswers[i])]

\* results = agent.analyze_full_lease() has returned, every request
\* answered.  op records the last call's name, the argument and the outcome
\* of the last format_analysis_report call, and whether that call followed
\* a load that followed an earlier report.
InitReport ==
    /\ \E text \in {None, TextA} : \E i \in DOMAIN SessionMetadata :
       \E env \in EnvsOf(0, {1}, DOMAIN IssuesAnswers, DOMAIN PlainAnswers) :
       \E out \in {analyze_full_lease(text, SessionMetadata[i], env)} :
         /\ out.exc = "none"
         /\ results = out.val
         /\ lease_text = text
         /\ metadata = SessionMetadata[i]
    /\ lease_loaded = Truthy(lease_text)
    /\ op = [name |-> "run_full_analysis", input |-> None, report |-> NotRun,
             after_load |-> FALSE]
    /\ ret = NotRun
    /\ calls = <<>>
    /\ result = <<>>
    /\ shape = "none"
    /\ extracted = NotRun

\* report = format_analysis_report(results)
FormatReport ==
    /\ \E out \in {format_analysis_report(results)} :
         /\ ret' = out
         /\ calls' = out.calls
         /\ op' = [name |-> "format_report", input |-> results, report |-> out,
                  after_load |-> op.name = "load_lease_text" /\ op.report # NotRun]
    /\ UNCHANGED <<lease_text, metadata, lease_loaded, results, extractVars>>

\* agent.load_lease_text(text, manual_metadata) with another document,
\* between two reports
ReportLoad ==
    /\ \E i \in {2, 3, 4} :
       \E env \in EnvsOf(1, DOMAIN MetadataAnswers, {1}, {1}) :
       \E s \in {load_lease_text(lease_text, metadata, TextB,
                                  ManualMetadata[i], env)} :
         /\ lease_text' = s.lease_text
         /\ metadata' = s.metadata
         /\ ret' = s.out
         /\ calls' = s.out.calls
    /\ op' = [op EXCEPT !.name = "load_lease_text"]
    /\ UNCHANGED <<lease_loaded, results, extractVars>>

NextReport == FormatReport \/ ReportLoad

SpecReport == InitReport /\ [][NextReport]_vars

(***************************************************************************)
(* Inputs of suggest_lease_rewrites: lists of clause objects               *)
(***************************************************************************)
MaxClauses == 7

\* the severity of a clause object
Severities == <<W("High"), W("Medium"), W("Low"), W("Unknown")>>

\* the i-th clause of a list, with severity number v
ClauseOf(i, v) ==
    Dict((Key("clause") :> Str(<<"Clause", " ", ToString(i)>>))
         @@ (Key("issue") :> Str(<<"Issue", " ", ToString(i)>>))
         @@ (Key("severity") :> Severities[v]))

ClauseLists ==
    UNION {[1..n -> DOMAIN Severities] : n \in 0..MaxClauses}

\* the rewrite request that fails: none, the first, the last
RewriteFaults == {0, 1, RewriteLimit}

\* what the i-th rewrite request meets when request number fail fails
RewriteAnswers(fail) ==
    [i \in 1..RewriteLimit |->
        IF i = fail THEN TransportFailure
        ELSE Completion(<<"Rewrite", " ", ToString(i)>>)]

InitRewrite ==
    /\ \E sevs \in ClauseLists : \E fail \in RewriteFaults :
         op = [name |-> "clauses",
               clauses |-> List([i \in DOMAIN sevs |-> ClauseOf(i, sevs[i])]),
               fail |-> fail]
    /\ ret = NotRun
    /\ calls = <<>>
    /\ lease_text = TextA
    /\ metadata = None
    /\ lease_loaded = FALSE
    /\ results = None
    /\ result = <<>>
    /\ shape = "none"
    /\ extracted = NotRun

\* suggest_lease_rewrites(problematic_clauses, lease_text)
SuggestRewrites ==
    /\ op.name = "clauses"
    /\ \E out \in {suggest_lease_rewrites(op.clauses, lease_text.v,
                                           RewriteAnswers(op.fail))} :
         /\ ret' = out
         /\ calls' = out.calls
    /\ op' = [op EXCEPT !.name = "suggest_lease_rewrites"]
    /\ UNCHANGED <<lease_text, metadata, lease_loaded, results, extractVars>>

NextRewrite == SuggestRewrites

SpecRewrite == InitRewrite /\ [][NextRewrite]_vars

(***************************************************************************)
(* Prompts: the operations of LeaseAnalyzer on documents of every length   *)
(* around the cutoffs, and what they do with the completion                *)
(***************************************************************************)
\* a document of n characters, one element each: full stops, and a space at
\* position p (no space when p = 0)
PromptDoc(n, p) == [i \in 1..n |-> IF i = p THEN " " ELSE "."]

\* a document and the completion the model gives: empty, plain, padded with
\* whitespace, a JSON object; the i-th rewrite request is answered by the
\* completion followed by i
InitPrompt ==
    /\ \E c \in {RightsCutoff, MetadataCutoff} : \E d \in {-1, 0, 1} :
       \E n \in {0, 1, c + d} :
       \E p \in {0, RightsCutoff, RightsCutoff + 1, MetadataCutoff,
                 MetadataCutoff + 1} :
       \E completion \in {<<>>,
                          <<"The", " ", "answer">>,
                          <<" ", "The", " ", "answer", " ", "\n">>,
                          <<"{", "}">>} :
         /\ p <= n
         /\ lease_text = Str(PromptDoc(n, p))
         /\ op = [name |-> "document", completion |-> completion]
    /\ ret = NotRun
    /\ calls = <<>>
    /\ metadata = None
    /\ lease_loaded = FALSE
    /\ results = None
    /\ result = <<>>
    /\ shape = "none"
    /\ extracted = NotRun

\* an operation of LeaseAnalyzer ran on the document
Prompted(name, out) ==
    /\ ret' = out
    /\ calls' = out.calls
    /\ op' = [op EXCEPT !.name = name]
    /\ UNCHANGED <<lease_text, metadata, lease_loaded, results, extractVars>>

PromptExtractMetadata ==
    \E out \in {extract_lease_metadata(lease_text.v, Completion(op.completion))} :
        Prompted("extract_lease_metadata", out)

PromptSummarize ==
    \E out \in {summarize_lease(lease_text.v, Completion(op.completion))} :
        Prompted("summarize_lease", out)

PromptIdentify ==
    \E out \in {identify_problematic_clauses(lease_text.v,
                                             Completion(op.completion))} :
        Prompted("identify_problematic_clauses", out)

PromptPrice ==
    \E out \in {get_rental_price_context(
                    Str(<<"San", " ", "Francisco">>), W("CA"), EmptyStr, Num(1),
                    Num(2500), Completion(op.completion))} :
        Prompted("get_rental_price_context", out)

PromptRewrite ==
    \E out \in {suggest_lease_rewrites(
                    List(<<ClauseOf(1, 1), ClauseOf(2, 2)>>), lease_text.v,
                    [i \in 1..RewriteLimit |->
                        Completion(op.completion \o <<ToString(i)>>)])} :
        Prompted("suggest_lease_rewrites", out)

PromptRights ==
    \E out \in {get_tenant_rights_advice(lease_text.v, W("CA"), None,
                                         Completion(op.completion))} :
        Prompted("get_tenant_rights_advice", out)

NextPrompt ==
    \/ PromptExtractMetadata
    \/ PromptSummarize
    \/ PromptIdentify
    \/ PromptPrice
    \/ PromptRewrite
    \/ PromptRights

SpecPrompt == InitPrompt /\ [][NextPrompt]_vars

(***************************************************************************)
(* Inputs of the extraction                                                *)
(***************************************************************************)
Alphabet == {"{", "}", "[", "]", ":", ",", "\"", "a", "1", "\n"}

SeqsUpTo(n) == UNION {[1..m -> Alphabet] : m \in 0..n}

\* a maximal run of digits or of letters is one element
IsCanonical(s) ==
    \A i \in 1..(Len(s) - 1) :
        /\ ~(s[i] \in DigitRuns /\ s[i + 1] \in DigitRuns)
        /\ ~(s[i] = "a" /\ s[i + 1] = "a")

\* well-formed JSON objects, each with the value it denotes
Docs == <<
    [text |-> <<"{", "}">>, value |-> EmptyDict],
    [text |-> <<"{", "\"", "a", "\"", ":", "1", "}">>,
     value |-> Dict(Key("a") :> Num(1))],
    [text |-> <<"{", "\"", "a", "\"", ":", "{", "\"", "b", "\"", ":", "null", "}", "}">>,
     value |-> Dict(Key("a") :> Dict(Key("b") :> None))],
    [text |-> <<"{", "\"", "a", "\"", ":", "\"", "}", "\"", ",", "\n",
                "\"", "b", "\"", ":", "[", "1", ",", "true", "]", "}">>,
     value |-> Dict((Key("a") :> W("}")) @@ (Key("b") :> List(<<Num(1), Bool(TRUE)>>)))],
    [text |-> <<"{", "\"", "city", "\"", ":", "\"", "San", " ", "Francisco", "\"", ",",
                "\"", "monthly_rent", "\"", ":", "2500", "}">>,
     value |-> Dict((Key("city") :> Str(<<"San", " ", "Francisco">>))
                    @@ (Key("monthly_rent") :> Num(2500)))]
>>

SampleText == <<"Lease", " ", "A">>

InitExtract ==
    /\ \/ /\ result \in {s \in SeqsUpTo(MaxLen) : IsCanonical(s)}
          /\ op = [name |-> "complete", prefix |-> <<>>, doc |-> 0, suffix |-> <<>>]
       \/ \E d \in DOMAIN Docs : \E P, S \in SeqsUpTo(MaxAffix) :
            /\ IsCanonical(P) /\ IsCanonical(S)
            /\ result = P \o Docs[d].text \o S
            /\ op = [name |-> "complete", prefix |-> P, doc |-> d, suffix |-> S]
    /\ shape = "none"
    /\ extracted = NotRun
    /\ lease_text = Str(SampleText)
    /\ metadata = None
    /\ lease_loaded = FALSE
    /\ results = None
    /\ ret = NotRun
    /\ calls = <<>>

\* the model answers the extract-metadata request with `result`, or fails
ExtractMetadata ==
    /\ shape = "none"
    /\ shape' = "object"
    /\ \E llm \in {Completion(result), TransportFailure} :
         extracted' = extract_lease_metadata(lease_text.v, llm)
    /\ UNCHANGED <<result, sessionVars>>

\* the model answers the identify-issues request with `result`, or fails
ExtractClauses ==
    /\ shape = "none"
    /\ shape' = "array"
    /\ \E llm \in {Completion(result), TransportFailure} :
         extracted' = identify_problematic_clauses(lease_text.v, llm)
    /\ UNCHANGED <<result, sessionVars>>

NextExtract == ExtractMetadata \/ ExtractClauses

SpecExtract == InitExtract /\ [][NextExtract]_vars

(***************************************************************************)
(* Properties of the extraction (SpecExtract)                              *)
(***************************************************************************)
Range(s) == {s[i] : i \in DOMAIN s}

\* the completion came back and the text selected from it does not decode
DecodeFails(open, close) ==
    /\ extracted.exc # "transport"
    /\ ~json_loads(Candidate(open, close, result)).ok

\* some substring of s decodes to a value of the given kind
ContainsParseable(s, kind) ==
    \E i \in 1..Len(s) : \E j \in i..Len(s) :
        LET d == json_loads(SubSeq(s, i, j)) IN d.ok /\ d.val.k = kind

\* C1: when the text selected from the completion fails to decode,
\* extract_lease_metadata raises nothing and returns exactly
\* {"error": "Could not parse lease metadata", "raw_response": completion}
\* with the completion unmodified.
C1_ObjectFallback ==
    (shape = "object" /\ DecodeFails("{", "}")) =>
        /\ extracted.exc = "none"
        /\ extracted.val = MetadataSentinel(result)

\* C1 witness: a completion with braces around undecodable text was extracted
C1_Witness ==
    /\ shape = "object"
    /\ DecodeFails("{", "}")
    /\ re_search("{", "}", result).found
    /\ re_search("{", "}", result).group # result
    /\ extracted.val = MetadataSentinel(result)

\* C2: when the text selected from the completion fails to decode,
\* identify_problematic_clauses raises nothing and returns a list of exactly
\* one element, the sentinel clause.
C2_ArrayFallback ==
    (shape = "array" /\ DecodeFails("[", "]")) =>
        /\ extracted.exc = "none"
        /\ extracted.val = List(<<ClauseSentinel>>)

\* C2 witness: an undecodable completion was extracted as clauses
C2_Witness ==
    /\ shape = "array"
    /\ DecodeFails("[", "]")
    /\ Len(result) > 0
    /\ extracted.val.k = "list"
    /\ Len(extracted.val.v) = 1
    /\ extracted.val.v[1] = ClauseSentinel

\* C3 (as claimed): a completion with no parseable object (array) yields the
\* sentinel of the shape, so the object-shape result is always a mapping and
\* the array-shape result always a sequence of clause objects.
C3_AlwaysWellShaped ==
    /\ (shape = "object" /\ extracted.exc = "none") =>
          /\ extracted.val.k = "dict"
          /\ ~ContainsParseable(result, "dict") =>
                extracted.val = MetadataSentinel(result)
    /\ (shape = "array" /\ extracted.exc = "none") =>
          /\ extracted.val.k = "list"
          /\ extracted.val.k = "list" =>
                \A i \in DOMAIN extracted.val.v : extracted.val.v[i].k = "dict"
          /\ ~ContainsParseable(result, "list") =>
                extracted.val = List(<<ClauseSentinel>>)

\* the completion is prefix + object + suffix
Wrapped == shape = "object" /\ extracted.exc = "none" /\ op.doc # 0

\* C4 (as claimed): around a well-formed object, any leading and trailing
\* prose, brace characters included, leaves the decoded object unchanged.
C4_AnyProse ==
    Wrapped => extracted.val = Docs[op.doc].value

\* C4 (amended): around a well-formed object, leading prose without "{" and
\* trailing prose without "}" leave the decoded object unchanged.
C4_ProseWithoutBraces ==
    (Wrapped /\ "{" \notin Range(op.prefix) /\ "}" \notin Range(op.suffix)) =>
        extracted.val = Docs[op.doc].value

\* C4 witness: a non-empty object between prose that holds a closing brace
\* before it and an opening brace after it was extracted unchanged
C4_Witness ==
    /\ Wrapped
    /\ op.prefix = <<"}">>
    /\ op.suffix = <<"{">>
    /\ DOMAIN Docs[op.doc].value.v # {}
    /\ extracted.val = Docs[op.doc].value

(***************************************************************************)
(* Properties of the session (Spec)                                        *)
(***************************************************************************)
Status(r) == Get(r.val, "status", None)

\* the load that ran last met a failure of extract_lease_text or of the
\* extract-metadata request
LoadFailed ==
    /\ op.name \in LoadOps
    /\ \/ op.fault # 0
       \/ op.name = "load_lease" /\ op.text = None

\* C5: load returns a value in every case, with status "error" and a
\* message when text extraction or the metadata request failed; a failed
\* request of any other operation is raised to the caller.
C5_OnlyLoadCatches ==
    /\ op.name \in LoadOps =>
          /\ ret.exc = "none"
          /\ ret.val.k = "dict"
          /\ LoadFailed =>
                /\ Status(ret) = W("error")
                /\ Get(ret.val, "message", None).k = "str"
    /\ (op.name \in AnalysisOps /\ op.fault # 0) => ret.exc = "transport"

\* C5 witness: load_lease_text met a failed extract-metadata request
C5_Witness ==
    /\ op.name = "load_lease_text"
    /\ op.fault = 1
    /\ Len(calls) = 1
    /\ ret.exc = "none"
    /\ Status(ret) = W("error")

\* C6 (as claimed): every load result has the keys status, message and
\* metadata, in the success and in the error outcome.
C6_AllThreeKeys ==
    op.name \in LoadOps =>
        /\ ret.exc = "none"
        /\ ret.val.k = "dict"
        /\ DOMAIN ret.val.v = {Key("status"), Key("message"), Key("metadata")}
        /\ Status(ret) = W("success") \/ Status(ret) = W("error")

\* C6 (amended): every load result is a mapping with status (success or
\* error) and message; the success result also has metadata, the error
\* result has no metadata key.
C6_KeysByStatus ==
    op.name \in LoadOps =>
        /\ ret.exc = "none"
        /\ ret.val.k = "dict"
        /\ Status(ret) = W("success") \/ Status(ret) = W("error")
        /\ Status(ret) = W("success") =>
              DOMAIN ret.val.v = {Key("status"), Key("message"), Key("metadata")}
        /\ Status(ret) = W("error") =>
              DOMAIN ret.val.v = {Key("status"), Key("message")}

\* C6 witness: load_lease returned the error result after a failed request
C6_Witness ==
    /\ op.name = "load_lease"
    /\ op.fault = 1
    /\ Status(ret) = W("error")
    /\ Key("metadata") \notin DOMAIN ret.val.v

\* C7 (as claimed): load_lease_text issues the extract-metadata request if
\* and only if no metadata mapping is supplied; a supplied mapping is stored
\* and returned, otherwise the one extracted result is stored and returned.
C7_ExtractIffNoneSupplied ==
    op.name = "load_lease_text" =>
        /\ op.manual # None =>
              /\ calls = <<>>
              /\ metadata = op.manual
              /\ Get(ret.val, "metadata", None) = op.manual
        /\ (op.manual = None /\ op.fault = 0) =>
              /\ Len(calls) = 1
              /\ calls[1].name = "extract-metadata"
              /\ Key("metadata") \in DOMAIN ret.val.v
              /\ metadata = Get(ret.val, "metadata", None)

\* no document is loaded: initially and after reset
IsEmpty == lease_text = None /\ metadata = None

\* the "not loaded" result of each analysis operation
NotLoadedOf(name) ==
    CASE name = "price_context" -> ErrNoMetadata
      [] name = "run_full_analysis" -> NoLeaseResult
      [] OTHER -> ErrNoLease

\* C8: in the Empty state every analysis operation returns its "not loaded"
\* result, issues no request, raises nothing and leaves the session Empty.
C8_EmptyReportsNotLoaded ==
    [][(IsEmpty /\ op'.name \in AnalysisOps) =>
          /\ ret' = Returned(NotLoadedOf(op'.name), <<>>)
          /\ calls' = <<>>
          /\ IsEmpty']_vars

\* C8 witness: the full analysis ran on an Empty session
C8_Witness ==
    /\ IsEmpty
    /\ op.name = "run_full_analysis"
    /\ ret = Returned(NoLeaseResult, <<>>)

LoadSucceeded == op.name \in LoadOps /\ Status(ret) = W("success")

\* C9 (as claimed): after a load that returned status success, a following
\* summarize, find_issues, rewrite_suggestions, rights_advice or
\* run_full_analysis does not answer with the "not loaded" result.
C9_LoadedAfterSuccess ==
    [][(LoadSucceeded /\ op'.name \in AnalysisOps \ {"price_context"}) =>
          ~(ret'.exc = "none" /\ ret'.val = NotLoadedOf(op'.name))]_vars

(***************************************************************************)
(* Properties of the Streamlit session (SpecUI)                            *)
(***************************************************************************)
\* the session holds no text, no metadata and no results, and is not loaded
IsReset == lease_text = None /\ metadata = None /\ results = None /\ ~lease_loaded

\* the agent's analysis operation of the given name
AnalysisOf(name, self_text, self_md, env) ==
    CASE name = "summarize" -> get_summary_wrapper(self_text, self_md, env)
      [] name = "find_issues" -> get_issues_wrapper(self_text, self_md, env)
      [] name = "price_context" -> get_price_analysis_wrapper(self_text, self_md, env)
      [] name = "rewrite_suggestions" -> get_rewrites_wrapper(self_text, self_md, env)
      [] name = "rights_advice" -> get_rights_wrapper(self_text, self_md, env)
      [] name = "run_full_analysis" -> analyze_full_lease(self_text, self_md, env)

Names(reqs) == [i \in DOMAIN reqs |-> reqs[i].name]

IsPrefix(s, t) == Len(s) <= Len(t) /\ SubSeq(t, 1, Len(s)) = s

\* the request sequences of a full analysis: summarize, identify-issues,
\* price-context if gated in, k rewrite-clause requests, rights-advice
FullSequence(gated, k) ==
    <<"summarize", "identify-issues">>
    \o (IF gated THEN <<"price-context">> ELSE <<>>)
    \o [i \in 1..k |-> "rewrite-clause"]
    \o <<"rights-advice">>

\* the gate of the price analysis: a truthy monthly_rent and a truthy city
Gated(md) ==
    /\ md.k = "dict"
    /\ Truthy(Get(md, "monthly_rent", None))
    /\ Truthy(Get(md, "city", None))

FullAnalysisRan == op.name = "run_full_analysis" /\ Truthy(lease_text)

\* C11: the requests of run_full_analysis on a loaded session are a prefix
\* of summarize, identify-issues, price-context (if and only if gated in),
\* at most RewriteLimit rewrite-clause requests, rights-advice; a run that
\* returns issued the whole sequence, one rewrite request per suggestion;
\* a request that failed is the last one issued.
C11_FixedOrder ==
    FullAnalysisRan =>
        /\ \E k \in 0..RewriteLimit :
              IsPrefix(Names(calls), FullSequence(Gated(metadata), k))
        /\ ret.exc = "none" =>
              Names(calls) = FullSequence(Gated(metadata),
                                 PyLen(Get(ret.val, "rewrite_suggestions", None)))
        /\ op.fault # 0 => Len(calls) = op.fault /\ ret.exc = "transport"

\* C11 witness: a full analysis returned after the price request and two
\* rewrite requests
C11_Witness ==
    /\ FullAnalysisRan
    /\ ret.exc = "none"
    /\ Names(calls) = <<"summarize", "identify-issues", "price-context",
                        "rewrite-clause", "rewrite-clause", "rights-advice">>

\* the answers to identify-issues that decode to a list of clause objects
\* (or to the sentinel list)
ClauseListAnswers == {1, 2, 3}

\* the environments of a full analysis whose clause answer is such a list
ClauseListEnvs == {env \in Envs : env.issues \in ClauseListAnswers}

\* the price analysis was left out: no price-context request, the field is
\* None, and the run returned or met a failed request
PriceLeftOut(out) ==
    /\ \A i \in DOMAIN out.calls : out.calls[i].name # "price-context"
    /\ out.exc \in {"none", "transport"}
    /\ out.exc = "none" => Get(out.val, "rental_price_analysis", None) = None

\* the price analysis was made: a returning run issued the price-context
\* request and holds its answer
PriceMade(out) ==
    out.exc = "none" =>
        /\ \E i \in DOMAIN out.calls : out.calls[i].name = "price-context"
        /\ Get(out.val, "rental_price_analysis", None) # None

\* C12 (as claimed): on every loaded session run_full_analysis leaves the
\* price analysis out, without an error, if and only if the metadata lacks
\* a truthy monthly_rent or a city value.
C12_PriceIffGated ==
    Truthy(lease_text) =>
        \A env \in ClauseListEnvs :
            LET out == analyze_full_lease(lease_text, metadata, env)
            IN  IF Gated(metadata) THEN PriceMade(out)
                ELSE PriceLeftOut(out)

\* C12 on the sessions whose metadata is a mapping
C12_PriceIffGatedOnMappings ==
    metadata.k = "dict" => C12_PriceIffGated

(***************************************************************************)
(* Properties of suggest_lease_rewrites (SpecRewrite)                      *)
(***************************************************************************)
RewritesReturned == op.name = "suggest_lease_rewrites" /\ ret.exc = "none"

\* C13: whatever the clauses, the returned list has at most RewriteLimit
\* entries and every entry has severity "Medium" or "High" (never "Low" or
\* "Unknown").
C13_AtMostFiveNoLow ==
    RewritesReturned =>
        /\ ret.val.k = "list"
        /\ Len(ret.val.v) <= 5
        /\ \A i \in DOMAIN ret.val.v :
              Get(ret.val.v[i], "severity", None) \in {W("Medium"), W("High")}

\* C13 witness: more than five clauses of severity Medium or High, among
\* clauses of severity Low and Unknown, gave five entries
C13_Witness ==
    /\ RewritesReturned
    /\ Len(ret.val.v) = 5
    /\ Cardinality({i \in DOMAIN op.clauses.v :
           Get(op.clauses.v[i], "severity", None) \in {W("Medium"), W("High")}}) > 5
    /\ \E i \in DOMAIN op.clauses.v :
           Get(op.clauses.v[i], "severity", None) \in {W("Low"), W("Unknown")}

\* the clauses of severity Medium or High, in input order
IsMediumOrHigh(c) ==
    Get(c, "severity", None) = W("Medium") \/ Get(c, "severity", None) = W("High")
Eligible == SelectSeq(op.clauses.v, IsMediumOrHigh)

\* C14: the returned list has one entry for each of the first
\* min(RewriteLimit, k) clauses of severity Medium or High, in input order;
\* entry i holds the clause text and the severity of the i-th such clause
\* and the answer to the i-th rewrite request, which was made for that
\* clause; no other request is made.
C14_FirstFiveInOrder ==
    RewritesReturned =>
        LET n == IF Len(Eligible) < 5 THEN Len(Eligible) ELSE 5
        IN  /\ Len(ret.val.v) = n
            /\ Len(calls) = n
            /\ \A i \in 1..n :
                  /\ DOMAIN ret.val.v[i].v =
                        {Key("original_clause"), Key("severity"), Key("rewrite_suggestion")}
                  /\ Get(ret.val.v[i], "original_clause", None)
                        = Get(Eligible[i], "clause", None)
                  /\ Get(ret.val.v[i], "severity", None)
                        = Get(Eligible[i], "severity", None)
                  /\ Get(ret.val.v[i], "rewrite_suggestion", None)
                        = Str(RewriteAnswers(0)[i].text)
                  /\ calls[i] = Request("rewrite-clause",
                                        <<Get(Eligible[i], "clause", None),
                                          Get(Eligible[i], "issue", None)>>)

\* C14 witness: seven clauses, the first of severity Low and six of
\* severity Medium or High, gave the entries of clauses 2 to 6
C14_Witness ==
    /\ RewritesReturned
    /\ Len(op.clauses.v) = 7
    /\ Get(op.clauses.v[1], "severity", None) = W("Low")
    /\ Len(Eligible) = 6
    /\ Len(ret.val.v) = 5
    /\ Get(ret.val.v[5], "original_clause", None) = Get(op.clauses.v[6], "clause", None)

\* C14 witness of the empty case: no clause of severity Medium or High gave
\* no entry and no request
C14_NoneEligible ==
    /\ RewritesReturned
    /\ Len(op.clauses.v) > 0
    /\ Len(Eligible) = 0
    /\ ret.val = EmptyList
    /\ calls = <<>>

(***************************************************************************)
(* Failures of the analysis operations (Spec)                              *)
(***************************************************************************)
\* C15: when a request of an analysis operation fails, the operation raises
\* the failure and returns nothing; the failed request is the last request
\* issued (it is not sent again and no later step runs), and the requests
\* before it are the ones a run without failure issues.
C15_FailurePropagates ==
    (op.name \in AnalysisOps /\ op.fault # 0) =>
        /\ ret.exc = "transport"
        /\ ret.val = None
        /\ Len(calls) = op.fault
        /\ \A i \in 1..(Len(calls) - 1) : calls[i] # calls[Len(calls)]
        /\ op.name = "run_full_analysis" =>
              \E k \in 0..RewriteLimit :
                  IsPrefix(Names(calls), FullSequence(Gated(metadata), k))

\* C15 witness: a full analysis whose first rewrite request failed, after
\* the summary, the clauses and the price analysis were answered
C15_Witness ==
    /\ op.name = "run_full_analysis"
    /\ op.fault = 4
    /\ ret.exc = "transport"
    /\ Names(calls) = <<"summarize", "identify-issues", "price-context", "rewrite-clause">>

\* C16 (as claimed): on a session that holds a text, run_full_analysis
\* either returns a result whose summary, problematic_clauses,
\* rewrite_suggestions and tenant_rights are set, or raises the failure of
\* a request; it raises nothing else.
C16_ReturnsOrTransport ==
    FullAnalysisRan =>
        /\ ret.exc \in {"none", "transport"}
        /\ ret.exc = "none" =>
              \A key \in {"summary", "problematic_clauses",
                          "rewrite_suggestions", "tenant_rights"} :
                  /\ Key(key) \in DOMAIN ret.val.v
                  /\ Get(ret.val, key, None) # None

(***************************************************************************)
(* Properties of format_analysis_report (under SpecReport)                 *)
(***************************************************************************)
\* a report was returned for op.input
ReportReturned == op.name = "format_report" /\ ret.exc = "none"

IsHeading(e) == \E h \in DOMAIN Heading : e = Heading[h]

\* the headings of a report, in the order they appear
HeadingsOf(report) == SelectSeq(report.v, IsHeading)

\* the sections in the claimed order, with or without the price analysis
Sections(with_price) ==
    <<Heading.property, Heading.summary, Heading.issues>>
    \o (IF with_price THEN <<Heading.price>> ELSE <<>>)
    \o <<Heading.rewrites, Heading.rights>>

\* the price-analysis value of the result that was formatted
PriceOf(res) == Get(res, "rental_price_analysis", None)

\* the report holds the heading of the price analysis, then a rule, then
\* the text of the analysis
HasPriceSection(report, price) ==
    \E i \in DOMAIN report.v :
        /\ report.v[i] = Heading.price
        /\ i + 1 + Len(price.v) <= Len(report.v)
        /\ report.v[i + 1] = Rule.single
        /\ SubSeq(report.v, i + 2, i + 1 + Len(price.v)) = price.v

C17_WitnessNull ==
    ReportReturned /\ PriceOf(op.input) = None /\ Len(HeadingsOf(ret.val)) = 5
C17_WitnessEmpty ==
    ReportReturned /\ PriceOf(op.input) = EmptyStr

\* C18: format_analysis_report returns a report for every result that
\* analyze_full_lease can return, and the report prints no null: a field
\* that is absent or null is rendered as N/A (Unknown for a severity).
C18_NeverFailsNoNull ==
    op.name = "format_report" =>
        /\ ret.exc = "none"
        /\ \A i \in DOMAIN ret.val.v : ret.val.v[i] # "None"

\* the two ways the code departs from it: a clause whose severity is null
\* makes the call raise, a null metadata field is printed as None
C18_RaisesOnNullSeverity ==
    /\ op.name = "format_report"
    /\ ret.exc = "AttributeError"
    /\ \E i \in DOMAIN Get(op.input, "problematic_clauses", EmptyList).v :
         Get(Get(op.input, "problematic_clauses", EmptyList).v[i],
             "severity", W("Unknown")) = None
C18_PrintsNull ==
    /\ ReportReturned
    /\ Get(Get(op.input, "metadata", EmptyDict), "city", W("N/A")) = None
    /\ \E i \in DOMAIN ret.val.v :
         /\ ret.val.v[i] = "City: "
         /\ ret.val.v[i + 1] = "None"

\* what holds: the result of an analysis without a lease is formatted with
\* N/A in every field
C18_NotLoadedFormats ==
    (op.name = "format_report" /\ op.input = NoLeaseResult) =>
        /\ ret.exc = "none"
        /\ HeadingsOf(ret.val) = Sections(FALSE)
        /\ SubSeq(ret.val.v, 7, 9) = <<"Address: ", "N/A", "\n">>

StoredText(o) == o.name \in LoadOps /\ o.text # None

\* after the step the session holds the text of the call with the metadata
\* supplied with it or, none supplied, extracted from it by this call
PairedByLoad ==
    /\ lease_text' = op'.text
    /\ Status(ret') = W("success")
    /\ metadata' = Get(ret'.val, "metadata", None)
    /\ IF Truthy(op'.manual) THEN metadata' = op'.manual /\ calls' = <<>>
       ELSE calls' = <<Request("extract-metadata",
                               <<Truncate(lease_text'.v, MetadataCutoff)>>)>>

\* the step keeps the document and its metadata, or discards both
PairKept ==
    \/ lease_text' = lease_text /\ metadata' = metadata
    \/ lease_text' = None /\ metadata' = None

\* C20: over every sequence of load, reset and analysis calls the text the
\* session holds is paired with the metadata supplied with, or extracted
\* from, that text: a load that stores a text stores its metadata with it,
\* and every other call keeps the pair or discards both.
C20_TextWithItsMetadata ==
    [][IF StoredText(op') THEN PairedByLoad ELSE PairKept]_vars

\* what holds: the pairing, for the loads whose extract-metadata request
\* does not fail
C20_PairedUnlessFailure ==
    [][IF StoredText(op') THEN (op'.fault = 0 => PairedByLoad) ELSE PairKept]_vars

\* a load whose extract-metadata request failed left its text in the session
\* with the metadata of the document loaded before, or with none
C20_StalePair ==
    /\ StoredText(op) /\ op.fault = 1
    /\ lease_text = TextB
    /\ Truthy(metadata)
C20_NoMetadata ==
    /\ StoredText(op) /\ op.fault = 1
    /\ lease_text = TextA
    /\ metadata = None

(***************************************************************************)
(* Properties of the prompts and of the plain-text operations (under       *)
(* SpecPrompt)                                                             *)
(***************************************************************************)
\* the document text substituted into the prompt of the one request made
PromptText ==
    IF op.name = "get_tenant_rights_advice" THEN calls[1].args[2]
    ELSE calls[1].args[1]

\* t is the first min(len, n) characters of doc
IsLeading(t, doc, n) ==
    /\ Len(t) = (IF Len(doc) < n THEN Len(doc) ELSE n)
    /\ \A i \in 1..Len(t) : t[i] = doc[i]

\* C21: the text substituted into a prompt is the first min(len, 8000)
\* characters of the document for extract-metadata, the first min(len, 4000)
\* for rights-advice, and the complete document for summarize and
\* identify-issues, for documents shorter than, as long as and longer than
\* the cutoffs.
C21_LeadingPrefix ==
    /\ op.name \in {"extract_lease_metadata", "summarize_lease",
                    "identify_problematic_clauses", "get_tenant_rights_advice"}
         => Len(calls) = 1
    /\ op.name = "extract_lease_metadata"
         => IsLeading(PromptText, lease_text.v, 8000)
    /\ op.name = "get_tenant_rights_advice"
         => IsLeading(PromptText, lease_text.v, 4000)
    /\ op.name \in {"summarize_lease", "identify_problematic_clauses"}
         => PromptText = lease_text.v

\* extract-metadata ran on a document of 8001 characters whose last
\* character differs from the others, and was given the first 8000
C21_Witness ==
    /\ op.name = "extract_lease_metadata"
    /\ Len(lease_text.v) = 8001
    /\ lease_text.v[8001] = " "
    /\ Len(PromptText) = 8000
    /\ \A i \in DOMAIN PromptText : PromptText[i] = "."
\* rights-advice ran on a document of exactly 4000 characters
C21_WitnessRights ==
    /\ op.name = "get_tenant_rights_advice"
    /\ Len(lease_text.v) = 4000
    /\ PromptText = lease_text.v

\* C22: summarize, price_context and rights_advice return the completion of
\* their one request unmodified, and each rewrite's rewrite_suggestion is
\* the unmodified completion of its own request, one request per returned
\* text.
C22_CompletionUnmodified ==
    /\ op.name \in {"summarize_lease", "get_rental_price_context",
                    "get_tenant_rights_advice"}
         => /\ ret.exc = "none"
            /\ ret.val = Str(op.completion)
            /\ Len(calls) = 1
    /\ op.name = "suggest_lease_rewrites"
         => /\ ret.exc = "none"
            /\ ret.val.k = "list"
            /\ Len(calls) = Len(ret.val.v)
            /\ \A i \in DOMAIN ret.val.v :
                 Get(ret.val.v[i], "rewrite_suggestion", None)
                     = Str(op.completion \o <<ToString(i)>>)

\* price_context returned a completion that begins and ends with whitespace
C22_Witness ==
    /\ op.name = "get_rental_price_context"
    /\ Len(op.completion) > 1
    /\ IsWs(op.completion[1]) /\ IsWs(op.completion[Len(op.completion)])
    /\ ret.val.v = op.completion
\* two rewrites were returned, each with the completion of its request
C22_WitnessRewrites ==
    /\ op.name = "suggest_lease_rewrites"
    /\ Len(ret.val.v) = 2 /\ Len(calls) = 2
    /\ Get(ret.val.v[2], "rewrite_suggestion", None)
           = Str(<<"The", " ", "answer", "2">>)

(***************************************************************************)
(* The candidate text of the extraction (under SpecExtract)                *)
(***************************************************************************)
\* the positions of an opening character with a closing one after it
OpeningsBeforeClosing(open, close, s) ==
    {i \in DOMAIN s : s[i] = open /\ \E j \in (i + 1)..Len(s) : s[j] = close}

\* from the first such opening character through the last closing character
\* of the completion; the entire completion if there is no such pair
FirstToLast(open, close, s) ==
    LET opens == OpeningsBeforeClosing(open, close, s)
        closes == {j \in DOMAIN s : s[j] = close}
    IN  IF opens = {} THEN s
        ELSE SubSeq(s, CHOOSE i \in opens : \A k \in opens : i <= k,
                       CHOOSE j \in closes : \A k \in closes : k <= j)

\* the value json.loads gives for the text, or the sentinel
DecodedOr(text, sentinel) ==
    IF json_loads(text).ok THEN json_loads(text).val ELSE sentinel

\* C23: the text the extractor decodes is the completion from the first
\* opening brace (bracket, for the array shape) that has a closing one after
\* it through the last closing one, line breaks included, and the entire
\* completion only when it has no such pair; what the extraction returns is
\* the decoding of that text, or the sentinel.
C23_FirstToLast ==
    /\ Candidate("{", "}", result) = FirstToLast("{", "}", result)
    /\ Candidate("[", "]", result) = FirstToLast("[", "]", result)
    /\ (shape = "object" /\ extracted.exc = "none")
         => extracted.val = DecodedOr(FirstToLast("{", "}", result),
                                      MetadataSentinel(result))
    /\ (shape = "array" /\ extracted.exc = "none")
         => extracted.val = DecodedOr(FirstToLast("[", "]", result),
                                      List(<<ClauseSentinel>>))

\* an object that spans a line break and is followed by prose was decoded
C23_Witness ==
    /\ shape = "object" /\ extracted.exc = "none"
    /\ result = <<"{", "\n", "}", "a">>
    /\ extracted.val = EmptyDict
\* a completion without a pair was decoded whole, for both shapes
C23_WitnessWhole ==
    /\ shape = "array" /\ extracted.exc = "none"
    /\ result = <<"]", "1", "[">>
    /\ extracted.val = List(<<ClauseSentinel>>)
C23_WitnessWholeValue ==
    /\ shape = "object" /\ extracted.exc = "none"
    /\ result = <<"1">>
    /\ extracted.val = Num(1)

(***************************************************************************)
(* The requests of one full analysis (under Spec)                          *)
(***************************************************************************)
\* a full analysis on a loaded session has returned its result
FullAnalysisCompleted == FullAnalysisRan /\ ret.exc = "none"

\* the Medium and High clauses stored in the result, in order
StoredEligible ==
    SelectSeq(Get(ret.val, "problematic_clauses", EmptyList).v, IsMediumOrHigh)

\* the number of requests named n
CountOf(n) == Cardinality({i \in DOMAIN calls : calls[i].name = n})

\* min(5, k)
Capped(k) == IF k < 5 THEN k ELSE 5

\* C24: a completed full analysis made one identify-issues request; its
\* rewrites are those of the first Medium/High clauses of the clause sequence
\* stored as problematic_clauses; it made 3 + p + min(5, k) requests, p = 1
\* if the price gate is open and 0 otherwise, k the number of Medium/High
\* clauses.  This holds of every run, also of one that follows a completed
\* run on the same session: nothing is reused.
C24_CallsOfOneRun ==
    FullAnalysisCompleted =>
        /\ CountOf("identify-issues") = 1
        /\ Len(calls) = 3 + (IF Gated(metadata) THEN 1 ELSE 0)
                           + Capped(Len(StoredEligible))
        /\ LET rewrites == Get(ret.val, "rewrite_suggestions", None).v
           IN  /\ Len(rewrites) = Capped(Len(StoredEligible))
               /\ CountOf("rewrite-clause") = Len(rewrites)
               /\ \A i \in DOMAIN rewrites :
                    Get(rewrites[i], "original_clause", None)
                        = Get(StoredEligible[i], "clause", EmptyStr)

\* what the last sentence says of two runs in a row: a run that follows a
\* completed run issues the full sequence again
C24_SecondRunIssuesAll ==
    [][(op.name = "run_full_analysis" /\ ret.exc = "none" /\ Truthy(lease_text)
        /\ op'.name = "run_full_analysis" /\ ret'.exc = "none")
         => /\ Len(calls') >= 3
            /\ Names(calls')[1] = "summarize"
            /\ Names(calls')[2] = "identify-issues"
            /\ Names(calls')[Len(calls')] = "rights-advice"]_vars

\* a run with an open price gate and six Medium/High clauses among seven
\* completed with 3 + 1 + 5 requests
C24_Witness ==
    /\ FullAnalysisCompleted
    /\ Gated(metadata)
    /\ Len(StoredEligible) = 6
    /\ Len(calls) = 9

(***************************************************************************)
(* The gate of the standalone price_context operation (under Spec)         *)
(***************************************************************************)
PriceContextRan == op.name = "price_context"

\* the operation issued the price-context request
PriceRequested ==
    \E i \in DOMAIN calls : calls[i].name = "price-context"

\* the operation returned one of its error texts without a request
PriceRefused ==
    /\ ret.exc = "none"
    /\ ret.val \in {ErrNoMetadata, ErrMissingInfo}
    /\ calls = <<>>

\* C25: the standalone price_context applies the gate of the price step of
\* the full analysis: it issues the price-context request if and only if the
\* metadata has a truthy monthly_rent and a truthy city, and otherwise
\* returns an error text without a request.
C25_SameGate ==
    PriceContextRan =>
        IF Gated(metadata) THEN PriceRequested ELSE PriceRefused

\* the gate the standalone operation applies: a truthy city, state and
\* monthly_rent, on metadata that is a mapping or falsy
C25_GateWithState ==
    (PriceContextRan /\ (metadata.k = "dict" \/ ~Truthy(metadata))) =>
        IF Gated(metadata) /\ Truthy(Get(metadata, "state", None))
        THEN PriceRequested ELSE PriceRefused

\* with rent and city but no state the standalone operation refuses, while
\* the full analysis makes the price analysis
C25_RefusedWithoutState ==
    /\ PriceContextRan
    /\ Gated(metadata)
    /\ ret.val = ErrMissingInfo /\ calls = <<>>
    /\ \A env \in EnvsOf(0, {1}, {2}, {2}) :
         \E i \in DOMAIN analyze_full_lease(lease_text, metadata, env).calls :
            analyze_full_lease(lease_text, metadata, env).calls[i].name
                = "price-context"

(***************************************************************************)
(* What changes the document and the metadata of the session (under Spec)  *)
(***************************************************************************)
\* C26: the analysis operations and format_report leave the session's text
\* and metadata as they are, whether they return a result, return the
\* not-loaded result or raise; a step that changes either is a load or a
\* reset.
C26_AnalysisKeepsSession ==
    [][/\ op'.name \in AnalysisOps \union {"format_report"}
            => lease_text' = lease_text /\ metadata' = metadata
       /\ (lease_text' # lease_text \/ metadata' # metadata)
            => op'.name \in LoadOps \union {"reset"}]_vars

\* a full analysis of a loaded session met a failed request and the session
\* still holds its text and metadata
C26_Witness ==
    /\ op.name = "run_full_analysis"
    /\ ret.exc = "transport"
    /\ lease_text = TextA
    /\ Truthy(metadata)
\* a report was formatted on a loaded session
C26_WitnessReport ==
    /\ op.name = "format_report" /\ ret.exc = "none"
    /\ lease_text = TextA /\ Truthy(metadata)

(***************************************************************************)
(* A load that returns an error (under Spec)                               *)
(***************************************************************************)
\* the step is a load that returned status error
LoadReturnedError == op'.name \in LoadOps /\ Status(ret') = W("error")

\* C27: a load that returns status error leaves the session's text and
\* metadata as they were before the call, on both load paths.
C27_ErrorLoadKeepsSession ==
    [][LoadReturnedError =>
          lease_text' = lease_text /\ metadata' = metadata]_vars

\* what holds: such a load keeps the metadata, and keeps the text when it is
\* the text extraction of load_lease that failed
C27_ErrorLoadKeepsMetadata ==
    [][LoadReturnedError =>
          /\ metadata' = metadata
          /\ op'.text = None => lease_text' = lease_text]_vars

\* a load of another text returned an error and the session holds that text
C27_ErrorLoadStoredText ==
    /\ op.name = "load_lease_text" /\ Status(ret) = W("error")
    /\ op.text = TextB /\ lease_text = TextB
    /\ Truthy(metadata)

(***************************************************************************)
(* The stored result of the Streamlit session (under SpecUI)               *)
(***************************************************************************)
\* results is what analyze_full_lease returns on the text and metadata the
\* session holds, for some answers of the model
ResultOfSession ==
    \E env \in EnvsOf(0, {1}, UiIssues, UiPlain) :
    \E out \in {analyze_full_lease(lease_text, metadata, env)} :
        out.exc = "none" /\ out.val = results

\* the step replaces the document or the metadata of the session
SessionReplaced == lease_text' # lease_text \/ metadata' # metadata

\* C28: in the Streamlit session, whenever a result is stored the loaded
\* flag is true and the result is that of a full analysis of the text and
\* metadata the session holds; no result stays stored over a step that
\* loads a different document.
C28_ResultOfCurrentDocument ==
    /\ [](results # None => (lease_loaded /\ ResultOfSession))
    /\ [][SessionReplaced => results' = None]_vars

\* what holds: a stored result comes with the loaded flag, and was returned
\* by a full analysis of the session as it then was
C28_ResultImpliesLoaded ==
    /\ [](results # None => lease_loaded)
    /\ [][results' # results =>
            \/ op'.name = "reset" /\ results' = None
            \/ /\ op'.name = "run_full_analysis"
               /\ ret'.exc = "none" /\ results' = ret'.val]_vars

\* the result of a full analysis is stored, and a later paste of another
\* text has replaced the document and its metadata
C28_StaleResult ==
    /\ results # None
    /\ op.name = "load_lease_text"
    /\ lease_text = TextB
    /\ Get(results, "metadata", None) # metadata
====
